---------------------------- MODULE Spec2Model ----------------------------
(***************************************************************************)
(* A model of the IP2Proxy BIN lookup engine (package ip2proxy, v4.0.1).   *)
(*                                                                         *)
(* Numbers keep the widths the Go code gives them.  A uint32 is a pair     *)
(* <<hi, lo>> of 16-bit limbs and a uint128 a tuple of eight 16-bit limbs, *)
(* most significant limb first, so that wrap-around at 2^32 and 2^128 and  *)
(* the unsigned comparisons are those of the code.  A uint8 is a number    *)
(* in 0..255 and its arithmetic is taken modulo 256.                       *)
(*                                                                         *)
(* Strings are tuples of byte values: what readStr decodes from the file   *)
(* and what the message constants hold are then values of one kind.        *)
(***************************************************************************)
EXTENDS Integers, Sequences, FiniteSets, TLC

B8  == 16 * 16
B16 == 256 * 256

(* A stand-in for every uint32 value of 2^30 and more, where only the      *)
(* comparison with a slice capacity or a file size is read: every file and *)
(* every slice of the model is shorter than 2^30 bytes.                    *)
Far == 16384 * B16

---------------------------------------------------------------------------
(* Fixed-width unsigned arithmetic on limb tuples.                         *)

\* uint128.Cmp and the uint32 comparisons: -1, 0 or 1.
Cmp(a, b) ==
  LET d == {i \in 1..Len(a) : a[i] # b[i]} IN
  IF d = {} THEN 0
  ELSE LET i == CHOOSE j \in d : \A l \in d : j <= l
       IN  IF a[i] < b[i] THEN -1 ELSE 1

\* a + b modulo 2^(16 * Len(a)).
AddU(a, b) ==
  LET n == Len(a)
      carry[i \in 1..(n + 1)] ==
        IF i = n + 1 THEN 0 ELSE (a[i] + b[i] + carry[i + 1]) \div B16
  IN  [i \in 1..n |-> (a[i] + b[i] + carry[i + 1]) % B16]

\* a - b modulo 2^(16 * Len(a)).
SubU(a, b) ==
  LET n == Len(a)
      borrow[i \in 1..(n + 1)] ==
        IF i = n + 1 THEN 0
        ELSE IF a[i] - b[i] - borrow[i + 1] < 0 THEN 1 ELSE 0
  IN  [i \in 1..n |-> (a[i] - b[i] - borrow[i + 1] + B16) % B16]

\* A small natural number as a uint32, and a uint32 as a number (Far when
\* it is 2^30 or more).
U32(n) == <<n \div B16, n % B16>>
Val(u) == IF u[1] >= 16384 THEN Far ELSE u[1] * B16 + u[2]

\* uint32 multiplication, by one byte, by one limb and in full.
MulByte(a, c) ==
  LET lo == a[2] * c IN <<(a[1] * c + lo \div B16) % B16, lo % B16>>
Shl8(a) == <<(a[1] * B8 + a[2] \div B8) % B16, (a[2] * B8) % B16>>
Mul16(a, w) == AddU(MulByte(a, w % B8), Shl8(MulByte(a, w \div B8)))
Mul32(a, b) == AddU(Mul16(a, b[2]), <<Mul16(a, b[1])[2], 0>>)

\* x >> 1 on a uint32.
Shr1(a) == <<a[1] \div 2, a[2] \div 2 + (a[1] % 2) * 32768>>

\* uint128.From64(uint64(x)) for a uint32 x.
From32(u) == <<0, 0, 0, 0, 0, 0, u[1], u[2]>>

\* binary.LittleEndian.Uint32 of four bytes.
LE32(b0, b1, b2, b3) == <<b3 * B8 + b2, b1 * B8 + b0>>

\* uint128.FromBytes: sixteen bytes, least significant first.
FromBytes(b) == [j \in 1..8 |-> b[17 - 2 * j + 1] * B8 + b[17 - 2 * j]]

---------------------------------------------------------------------------
(* Strings.                                                                *)

msgNotSupported    == <<78, 79, 84, 32, 83, 85, 80, 80, 79, 82, 84, 69, 68>>
msgInvalidIP       == <<73, 78, 86, 65, 76, 73, 68, 32, 73, 80, 32, 65, 68,
                        68, 82, 69, 83, 83>>
msgMissingFile     == <<77, 73, 83, 83, 73, 78, 71, 32, 70, 73, 76, 69>>
msgIPV6Unsupported == <<73, 80, 86, 54, 32, 65, 68, 68, 82, 69, 83, 83, 32,
                        77, 73, 83, 83, 73, 78, 71, 32, 73, 78, 32, 73, 80,
                        86, 52, 32, 66, 73, 78>>
\* The error values, told apart by name only.
msgInvalidBin == "Incorrect IP2Proxy BIN file format"

strDash == <<45>>            \* "-"
strDCH  == <<68, 67, 72>>    \* "DCH"
strSES  == <<83, 69, 83>>    \* "SES"
strVPN  == <<86, 80, 78>>    \* "VPN"
strUS   == <<85, 83>>        \* "US"
strDE   == <<68, 69>>        \* "DE"
strEmpty == << >>

---------------------------------------------------------------------------
(* Database files.  A file is its bytes from offset 0 (image), followed,   *)
(* when it is indexed, by the index tables: 65536 slots of two uint32 row  *)
(* bounds per family, whose bytes are computed from the rows on demand.    *)

IndexBytes == 8 * B16

Bytes32(u) == <<u[2] % B8, u[2] \div B8, u[1] % B8, u[1] \div B8>>
Bytes128(u) ==
  [k \in 1..16 |->
     LET limb == u[8 - ((k - 1) \div 2)]
     IN  IF k % 2 = 1 THEN limb % B8 ELSE limb \div B8]

RECURSIVE Flatten(_)
Flatten(ss) == IF ss = << >> THEN << >> ELSE Head(ss) \o Flatten(Tail(ss))

Zeros(n) == [i \in 1..n |-> 0]

\* A string in the pool: its length byte, then its bytes.
Entry(s) == <<Len(s)>> \o s
\* A country in the pool: the short code, and the long name whose length
\* byte lies 3 bytes after the short code's.
CountryEntry(short, long) ==
  Entry(short) \o Zeros(2 - Len(short)) \o Entry(long)

\* The 64-byte header.
HeaderBytes(h) ==
  <<h.dbtype, h.column, h.year, h.month, h.day>>
    \o Bytes32(U32(h.v4count)) \o Bytes32(U32(h.v4addr))
    \o Bytes32(U32(h.v6count)) \o Bytes32(U32(h.v6addr))
    \o Bytes32(U32(h.v4index)) \o Bytes32(U32(h.v6index))
    \o <<h.pcode, h.ptype>> \o Bytes32(U32(h.size)) \o Zeros(29)

\* The file built from a description fx: the header, the IPv4 rows, the
\* IPv6 rows, the string pool, and the index tables.  A row is its ipFrom
\* and, per further column, the number of the pool entry it points to; the
\* stored pointer is the offset of that entry's length byte.
Build(fx) ==
  LET n4      == Len(fx.v4)
      n6      == Len(fx.v6)
      w       == IF n4 > 0 THEN Len(fx.v4[1].cols)
                 ELSE IF n6 > 0 THEN Len(fx.v6[1].cols) ELSE 0
      v4At    == 64
      v6At    == v4At + n4 * (4 + 4 * w)
      poolAt  == v6At + n6 * (16 + 4 * w)
      plen    == Len(Flatten(fx.pool))
      PtrOf(e) == poolAt + Len(Flatten(SubSeq(fx.pool, 1, e - 1)))
      Cols(r) == Flatten([c \in 1..w |-> Bytes32(U32(PtrOf(r.cols[c])))])
      rows4   == Flatten([i \in 1..n4 |-> Bytes32(fx.v4[i].from) \o Cols(fx.v4[i])])
      rows6   == Flatten([i \in 1..n6 |-> Bytes128(fx.v6[i].from) \o Cols(fx.v6[i])])
      idx4At  == poolAt + plen
      idx6At  == idx4At + (IF fx.index4 THEN IndexBytes ELSE 0)
      size    == idx6At + (IF fx.index6 THEN IndexBytes ELSE 0)
      hdr     == [dbtype |-> fx.dbtype, column |-> fx.column, year |-> fx.year,
                  month |-> 1, day |-> 1,
                  v4count |-> n4, v4addr |-> v4At + 1,
                  v6count |-> n6, v6addr |-> IF n6 > 0 THEN v6At + 1 ELSE 0,
                  v4index |-> IF fx.index4 THEN idx4At + 1 ELSE 0,
                  v6index |-> IF fx.index6 THEN idx6At + 1 ELSE 0,
                  pcode |-> fx.pcode, ptype |-> 0, size |-> size]
  IN  [id     |-> fx.id,
       slots  |-> fx.slots,
       image  |-> HeaderBytes(hdr) \o rows4 \o rows6 \o Flatten(fx.pool),
       size   |-> size,
       idx4At |-> IF fx.index4 THEN idx4At ELSE -1,
       idx6At |-> IF fx.index6 THEN idx6At ELSE -1,
       v4from |-> [i \in 1..n4 |-> fx.v4[i].from],
       v6from |-> [i \in 1..n6 |-> fx.v6[i].from],
       v4cols |-> [i \in 1..n4 |-> fx.v4[i].cols],
       v6cols |-> [i \in 1..n6 |-> fx.v6[i].cols]]

\* The last row (counted from 0) whose ipFrom is at most key.
LastRowUpTo(from, key) ==
  LET s == {i \in 1..Len(from) : Cmp(from[i], key) <= 0}
  IN  IF s = {} THEN 0 ELSE (CHOOSE i \in s : \A j \in s : j <= i) - 1

\* The index slot of a 16-bit prefix p: the rows that meet the prefix.
SlotBytes(from, lowKey, highKey) ==
  Bytes32(U32(LastRowUpTo(from, lowKey)))
    \o Bytes32(U32(LastRowUpTo(from, highKey)))

\* The index slot of a file whose index was not computed from its rows:
\* every slot holds the bounds 1 and 2^32 - 1.
WideSlot == Bytes32(<<0, 1>>) \o Bytes32(<<B16 - 1, B16 - 1>>)

ByteAt(f, off) ==
  IF off < Len(f.image) THEN f.image[off + 1]
  ELSE IF f.idx4At >= 0 /\ off >= f.idx4At /\ off < f.idx4At + IndexBytes
    THEN LET p == (off - f.idx4At) \div 8
         IN  IF f.slots = "wide" THEN WideSlot[((off - f.idx4At) % 8) + 1]
             ELSE SlotBytes(f.v4from, <<p, 0>>, <<p, B16 - 1>>)
                    [((off - f.idx4At) % 8) + 1]
  ELSE IF f.idx6At >= 0 /\ off >= f.idx6At /\ off < f.idx6At + IndexBytes
    THEN LET p == (off - f.idx6At) \div 8
         IN  IF f.slots = "wide" THEN WideSlot[((off - f.idx6At) % 8) + 1]
             ELSE
             SlotBytes(f.v6from, <<p, 0, 0, 0, 0, 0, 0, 0>>,
                       <<p, B16 - 1, B16 - 1, B16 - 1, B16 - 1, B16 - 1,
                         B16 - 1, B16 - 1>>)
               [((off - f.idx6At) % 8) + 1]
  ELSE 0

---------------------------------------------------------------------------
(* The files of the model.                                                 *)

Pool ==
  << Entry(strDash), Entry(strVPN), Entry(strDCH), Entry(strSES),
     CountryEntry(strDash, strDash),
     CountryEntry(strUS, <<85, 83, 65>>),
     CountryEntry(strDE, <<68, 69, 85>>),
     <<255, 65, 66>>,
     Entry(<<67, 65>>), Entry(<<76, 65>>) >>

MaxV4 == <<B16 - 1, B16 - 1>>
MaxV6 == <<B16 - 1, B16 - 1, B16 - 1, B16 - 1, B16 - 1, B16 - 1, B16 - 1, B16 - 1>>

\* IPv4 rows [0.0.0.0, 10.0.0.0), [10.0.0.0, 20.0.1.0), [20.0.1.0, 30.0.0.0),
\* [30.0.0.0, 255.255.255.255) and the closing row; columns: proxy type,
\* country.
Rows4 ==
  << [from |-> <<0, 0>>,      cols |-> <<1, 5>>],
     [from |-> <<2560, 0>>,   cols |-> <<2, 6>>],
     [from |-> <<5120, 256>>, cols |-> <<3, 5>>],
     [from |-> <<7680, 0>>,   cols |-> <<3, 6>>],
     [from |-> MaxV4,         cols |-> <<1, 5>>] >>

\* IPv6 rows [::, 2000::), [2000::, 3000::), [3000::, ffff:...:ffff) and the
\* closing row.
Rows6 ==
  << [from |-> <<0, 0, 0, 0, 0, 0, 0, 0>>,     cols |-> <<4, 7>>],
     [from |-> <<8192, 0, 0, 0, 0, 0, 0, 0>>,  cols |-> <<1, 6>>],
     [from |-> <<12288, 0, 0, 0, 0, 0, 0, 0>>, cols |-> <<2, 7>>],
     [from |-> MaxV6,                          cols |-> <<1, 5>>] >>

\* A PX2 database (proxy type in column 2, country in column 3) of 2021.
PX2 ==
  [id |-> "v4", slots |-> "rows",
   dbtype |-> 2, column |-> 3, year |-> 21, pcode |-> 2, pool |-> Pool,
   v4 |-> Rows4, v6 |-> << >>, index4 |-> FALSE, index6 |-> FALSE]

\* The rows of Rows4 with the proxy type of row 1 pointing at the pool
\* entry whose length byte is 255.
Rows4Len255 == [Rows4 EXCEPT ![2].cols = <<8, 6>>]

FileIds ==
  {"v4", "v4v6", "indexed", "px1", "fewcolumns", "len255", "type12",
   "short", "badcode", "wideindex", "px3"}

WellFormed == {"v4", "v4v6", "indexed", "px1", "px3"}

\* The description of each file: a PX2 database with IPv4 rows only; with
\* IPv6 rows too; with both index tables; a PX1 database (country only);
\* one whose header declares a single column; one whose pool holds a length
\* byte of 255; one of type 12; one of 10 bytes; one with a wrong product
\* code; one whose IPv4 index slots all hold the bounds 1 and 2^32 - 1; a
\* PX3 database (proxy type, country, region, city).
FileOf ==
  [id \in FileIds |->
     CASE id = "v4"         -> Build(PX2)
       [] id = "v4v6"       -> Build([PX2 EXCEPT !.id = id, !.v6 = Rows6])
       [] id = "indexed"    -> Build([PX2 EXCEPT !.id = id, !.v6 = Rows6,
                                                 !.index4 = TRUE, !.index6 = TRUE])
       [] id = "px1"        -> Build([PX2 EXCEPT !.id = id, !.dbtype = 1,
                                 !.column = 2,
                                 !.v4 = [i \in 1..Len(Rows4) |->
                                           [from |-> Rows4[i].from,
                                            cols |-> <<Rows4[i].cols[2]>>]]])
       [] id = "fewcolumns" -> Build([PX2 EXCEPT !.id = id, !.column = 1])
       [] id = "len255"     -> Build([PX2 EXCEPT !.id = id, !.v4 = Rows4Len255])
       [] id = "type12"     -> Build([PX2 EXCEPT !.id = id, !.dbtype = 12])
       [] id = "short"      -> [id |-> id, slots |-> "rows",
                                image |-> <<2, 3, 21, 1, 1, 5, 0, 0, 0, 65>>,
                                size |-> 10, idx4At |-> -1, idx6At |-> -1,
                                v4from |-> << >>, v6from |-> << >>,
                                v4cols |-> << >>, v6cols |-> << >>]
       [] id = "badcode"    -> Build([PX2 EXCEPT !.id = id, !.pcode = 1])
       [] id = "wideindex"  -> Build([PX2 EXCEPT !.id = id, !.index4 = TRUE,
                                                 !.slots = "wide"])
       [] id = "px3"        -> Build([PX2 EXCEPT !.id = id, !.dbtype = 3,
                                 !.column = 5,
                                 !.v4 = [i \in 1..Len(Rows4) |->
                                           [from |-> Rows4[i].from,
                                            cols |-> Rows4[i].cols \o <<9, 10>>]]])]

---------------------------------------------------------------------------
(* The program: one database file on disk, the readers opened on it, the   *)
(* handles, the package-level range values, and the call in progress.      *)

VARIABLES
  file,      \* the database file of this run, as FileOf describes it
  readers,   \* the readers opened so far: [closed]
  handles,   \* handles[1] is a &DB{} never opened; the others came from OpenDB
  ranges,    \* maxIPV6Range, from6To4, to6To4, fromTeredo, toTeredo
  ret,       \* what the last call gave back, until the caller takes it
  calls,     \* per goroutine, the query it is running concurrently
  opening    \* how far the OpenDBWithReader running beside the queries is

vars == <<file, readers, handles, ranges, ret, calls, opening>>

---------------------------------------------------------------------------
(* Readers (os.File as a dbReader), byte slices, and the read helpers.     *)

\* The bytes a read of n bytes at off gets from the file.
Avail(off, n) ==
  IF off >= file.size THEN 0
  ELSE IF file.size - off < n THEN file.size - off ELSE n

\* f.ReadAt(data, off) with len(data) = n on the reader rd.  fails: the
\* operating system fails this read.  got: the bytes read into data.
ReadAt(rd, off, n, fails) ==
  IF rd.closed THEN [err |-> "file already closed", got |-> 0]
  ELSE IF off < 0 THEN [err |-> "negative offset", got |-> 0]
  ELSE IF fails THEN [err |-> "input/output error", got |-> 0]
  ELSE [err |-> IF Avail(off, n) < n THEN "EOF" ELSE "nil", got |-> Avail(off, n)]

\* data[i] after that read, i counted from 0: the bytes not read stay zero.
DataAt(off, got, i) == IF i < got THEN ByteAt(file, off + i) ELSE 0

\* A Go byte slice: its backing array, where it starts in it, its length
\* and its capacity.  make([]byte, n) has length and capacity n.
MakeSlice(data) == [arr |-> data, off |-> 0, len |-> Len(data), cap |-> Len(data)]
\* s[lo:hi] is in range when lo <= hi <= cap(s).
SliceOK(s, lo, hi) == lo <= hi /\ hi <= s.cap
Reslice(s, lo, hi) ==
  [arr |-> s.arr, off |-> s.off + lo, len |-> hi - lo, cap |-> s.cap - lo]
\* s[i], counted from 0.
At(s, i) == s.arr[s.off + i + 1]

\* The end of readRow: nil and the error, or the bytes read.
rowRead(r, off, size) ==
  IF r.err # "nil" THEN [err |-> r.err, row |-> MakeSlice(<< >>)]
  ELSE [err |-> "nil",
        row |-> MakeSlice([i \in 1..size |-> DataAt(off, r.got, i - 1)])]

readRow(rd, pos, size, fails) ==
  rowRead(ReadAt(rd, Val(pos) - 1, size, fails), Val(pos) - 1, size)

\* ok is FALSE when row[pos : pos+4] is out of range, which aborts the call.
readUint32Row(row, pos) ==
  IF ~SliceOK(row, Val(pos), Val(AddU(pos, <<0, 4>>)))
    THEN [ok |-> FALSE, val |-> <<0, 0>>]
    ELSE [ok |-> TRUE,
          val |-> LE32(At(row, Val(pos)), At(row, Val(pos) + 1),
                       At(row, Val(pos) + 2), At(row, Val(pos) + 3))]

readUint128Row(row, pos) ==
  IF ~SliceOK(row, Val(pos), Val(AddU(pos, <<0, 16>>)))
    THEN [ok |-> FALSE, val |-> From32(<<0, 0>>)]
    ELSE [ok |-> TRUE,
          val |-> FromBytes([i \in 1..16 |-> At(row, Val(pos) + i - 1)])]

\* The uint8 sum strLen + 1, the upper bound of data[1:(strLen + 1)].
StrEnd(strLen) == (strLen + 1) % B8

\* The end of readStr once data[0] is known: the slice is out of range
\* when its upper bound is below 1.
strCut(strLen, off, got) ==
  IF ~(1 <= StrEnd(strLen))
    THEN [out |-> "panic", val |-> strEmpty, err |-> "nil"]
    ELSE [out |-> "ok", err |-> "nil",
          val |-> [i \in 1..(StrEnd(strLen) - 1) |-> DataAt(off, got, i)]]

\* The end of readStr after the read: an error other than EOF is returned.
strRead(r, off) ==
  IF r.err # "nil" /\ r.err # "EOF"
    THEN [out |-> "err", val |-> strEmpty, err |-> r.err]
    ELSE strCut(DataAt(off, r.got, 0), off, r.got)

\* readStr taking the pointer for a 1-based position, as readRow does.
readStr_OneBased(rd, pos, fails) ==
  strRead(ReadAt(rd, Val(pos) - 1, 256, fails), Val(pos) - 1)

\* out is "ok" with the string, "err" with the error, or "panic" when
\* data[1:(strLen + 1)] is out of range.
readStr(rd, pos, fails) == strRead(ReadAt(rd, Val(pos), 256, fails), Val(pos))

---------------------------------------------------------------------------
(* Addresses.  An address is given as net.ParseIP returns it: NoIP (nil)   *)
(* for a text that is no address, else 16 bytes, an IPv4 address in the    *)
(* form ::ffff:a.b.c.d.                                                    *)

NoIP == << >>
IPv4(a, b, c, d) == <<0, 0, 0, 0, 0, 0, 0, 0, 0, 0, 255, 255, a, b, c, d>>
IPv6(h) == [k \in 1..16 |-> IF k % 2 = 1 THEN h[(k + 1) \div 2] \div B8
                            ELSE h[k \div 2] % B8]

\* ip.To4(): the last four bytes of ::ffff:a.b.c.d, else nil (<< >>).
To4(ip) ==
  IF (\A k \in 1..10 : ip[k] = 0) /\ ip[11] = 255 /\ ip[12] = 255
    THEN SubSeq(ip, 13, 16) ELSE << >>

reverseBytes(s) == [k \in 1..Len(s) |-> s[Len(s) + 1 - k]]

\* The package-level range values: what their declarations give them, and
\* what OpenDBWithReader sets them to.
ZeroU128 == <<0, 0, 0, 0, 0, 0, 0, 0>>
maxIPV4Range == From32(MaxV4)
fromV4Mapped == <<0, 0, 0, 0, 0, B16 - 1, 0, 0>>
toV4Mapped   == <<0, 0, 0, 0, 0, B16 - 1, B16 - 1, B16 - 1>>
InitialRanges ==
  [maxIPV6Range |-> ZeroU128, from6To4 |-> ZeroU128, to6To4 |-> ZeroU128,
   fromTeredo |-> ZeroU128, toTeredo |-> ZeroU128]
OpenedRanges ==
  [maxIPV6Range |-> MaxV6,
   from6To4   |-> <<8194, 0, 0, 0, 0, 0, 0, 0>>,
   to6To4     |-> <<8194, B16 - 1, B16 - 1, B16 - 1, B16 - 1, B16 - 1, B16 - 1,
                    B16 - 1>>,
   fromTeredo |-> <<8193, 0, 0, 0, 0, 0, 0, 0>>,
   toTeredo   |-> <<8193, 0, B16 - 1, B16 - 1, B16 - 1, B16 - 1, B16 - 1,
                    B16 - 1>>]

\* uint128 shifts by whole limbs, by 3 bits, the complement, the mask with
\* last32Bits, and uint32(x.Lo).
RshLimbs(n, k) == [i \in 1..8 |-> IF i <= k THEN 0 ELSE n[i - k]]
Lsh3(n) ==
  LET carry[i \in 1..9] ==
        IF i = 9 THEN 0 ELSE (n[i] * 8 + carry[i + 1]) \div B16
  IN  [i \in 1..8 |-> (n[i] * 8 + carry[i + 1]) % B16]
Not128(n) == [i \in 1..8 |-> B16 - 1 - n[i]]
AndLast32(n) == <<0, 0, 0, 0, 0, 0, n[7], n[8]>>
Lo32(n) == <<n[7], n[8]>>

InRange(n, from, to) == Cmp(n, from) >= 0 /\ Cmp(n, to) <= 0

\* The 6to4 address shifted right by 96 bits instead of 80.
ipTypeNum_Shift96(g, v4, raw) ==
  IF v4 # << >>
    THEN [ipType |-> 4,
          ipNum  |-> From32(<<v4[1] * B8 + v4[2], v4[3] * B8 + v4[4]>>)]
  ELSE IF InRange(raw, fromV4Mapped, toV4Mapped)
    THEN [ipType |-> 4, ipNum |-> SubU(raw, fromV4Mapped)]
  ELSE IF InRange(raw, g.from6To4, g.to6To4)
    THEN [ipType |-> 4, ipNum |-> AndLast32(RshLimbs(raw, 6))]
  ELSE IF InRange(raw, g.fromTeredo, g.toTeredo)
    THEN [ipType |-> 4, ipNum |-> AndLast32(Not128(raw))]
  ELSE [ipType |-> 6, ipNum |-> raw]

\* The Teredo address masked without being complemented.
ipTypeNum_TeredoUncomplemented(g, v4, raw) ==
  IF v4 # << >>
    THEN [ipType |-> 4,
          ipNum  |-> From32(<<v4[1] * B8 + v4[2], v4[3] * B8 + v4[4]>>)]
  ELSE IF InRange(raw, fromV4Mapped, toV4Mapped)
    THEN [ipType |-> 4, ipNum |-> SubU(raw, fromV4Mapped)]
  ELSE IF InRange(raw, g.from6To4, g.to6To4)
    THEN [ipType |-> 4, ipNum |-> AndLast32(RshLimbs(raw, 5))]
  ELSE IF InRange(raw, g.fromTeredo, g.toTeredo)
    THEN [ipType |-> 4, ipNum |-> AndLast32(raw)]
  ELSE [ipType |-> 6, ipNum |-> raw]

\* Every address taken as an IPv6 address with its 128-bit number.
ipTypeNum_RawOnly(g, v4, raw) == [ipType |-> 6, ipNum |-> raw]

\* The type and number of an address whose To4() is v4 and whose 16 bytes
\* make the number raw.
ipTypeNum(g, v4, raw) ==
  IF v4 # << >>
    THEN [ipType |-> 4,
          ipNum  |-> From32(<<v4[1] * B8 + v4[2], v4[3] * B8 + v4[4]>>)]
  ELSE IF InRange(raw, fromV4Mapped, toV4Mapped)
    THEN [ipType |-> 4, ipNum |-> SubU(raw, fromV4Mapped)]
  ELSE IF InRange(raw, g.from6To4, g.to6To4)
    THEN [ipType |-> 4, ipNum |-> AndLast32(RshLimbs(raw, 5))]
  ELSE IF InRange(raw, g.fromTeredo, g.toTeredo)
    THEN [ipType |-> 4, ipNum |-> AndLast32(Not128(raw))]
  ELSE [ipType |-> 6, ipNum |-> raw]

\* The index position taken in the IPv6 index for every address.
ipIndexOf_V6IndexForAll(d, t) ==
  [ipType  |-> t.ipType,
   ipNum   |-> t.ipNum,
   ipIndex |->
     IF t.ipType \in {4, 6} /\ d.meta.ipV6Indexed
       THEN Lo32(AddU(Lsh3(RshLimbs(t.ipNum, IF t.ipType = 4 THEN 1 ELSE 7)),
                      From32(d.meta.ipV6IndexBaseAddr)))
     ELSE <<0, 0>>]

\* The index position of the address, 0 without an index for its family.
ipIndexOf(d, t) ==
  [ipType  |-> t.ipType,
   ipNum   |-> t.ipNum,
   ipIndex |->
     IF t.ipType = 4 /\ d.meta.ipV4Indexed
       THEN Lo32(AddU(Lsh3(RshLimbs(t.ipNum, 1)), From32(d.meta.ipV4IndexBaseAddr)))
     ELSE IF t.ipType = 6 /\ d.meta.ipV6Indexed
       THEN Lo32(AddU(Lsh3(RshLimbs(t.ipNum, 7)), From32(d.meta.ipV6IndexBaseAddr)))
     ELSE <<0, 0>>]

\* checkIP taking a text that is no address for the address ::.
checkIP_NilAsZero(d, g, ip) ==
  IF ip = NoIP
    THEN ipIndexOf(d, ipTypeNum(g, << >>, ZeroU128))
    ELSE ipIndexOf(d, ipTypeNum(g, To4(ip), FromBytes(reverseBytes(ip))))

\* get IP type and calculate IP number; calculates index too if exists.
\* d: the handle, g: the package-level range values, ip: the parsed text.
checkIP(d, g, ip) ==
  IF ip = NoIP THEN [ipType |-> 0, ipNum |-> ZeroU128, ipIndex |-> <<0, 0>>]
  ELSE ipIndexOf(d, ipTypeNum(g, To4(ip), FromBytes(reverseBytes(ip))))

---------------------------------------------------------------------------
(* The handle and OpenDBWithReader.                                        *)

countryPosition   == <<0, 2, 3, 3, 3, 3, 3, 3, 3, 3, 3, 3>>
regionPosition    == <<0, 0, 0, 4, 4, 4, 4, 4, 4, 4, 4, 4>>
cityPosition      == <<0, 0, 0, 5, 5, 5, 5, 5, 5, 5, 5, 5>>
ispPosition       == <<0, 0, 0, 0, 6, 6, 6, 6, 6, 6, 6, 6>>
proxyTypePosition == <<0, 0, 2, 2, 2, 2, 2, 2, 2, 2, 2, 2>>
domainPosition    == <<0, 0, 0, 0, 0, 7, 7, 7, 7, 7, 7, 7>>
usageTypePosition == <<0, 0, 0, 0, 0, 0, 8, 8, 8, 8, 8, 8>>
asnPosition       == <<0, 0, 0, 0, 0, 0, 0, 9, 9, 9, 9, 9>>
asPosition        == <<0, 0, 0, 0, 0, 0, 0, 10, 10, 10, 10, 10>>
lastSeenPosition  == <<0, 0, 0, 0, 0, 0, 0, 0, 11, 11, 11, 11>>
threatPosition    == <<0, 0, 0, 0, 0, 0, 0, 0, 0, 12, 12, 12>>
providerPosition  == <<0, 0, 0, 0, 0, 0, 0, 0, 0, 0, 0, 13>>

Columns ==
  {"country", "region", "city", "isp", "proxyType", "domain", "usageType",
   "asn", "as", "lastSeen", "threat", "provider"}

PositionTable(c) ==
  CASE c = "country"   -> countryPosition
    [] c = "region"    -> regionPosition
    [] c = "city"      -> cityPosition
    [] c = "isp"       -> ispPosition
    [] c = "proxyType" -> proxyTypePosition
    [] c = "domain"    -> domainPosition
    [] c = "usageType" -> usageTypePosition
    [] c = "asn"       -> asnPosition
    [] c = "as"        -> asPosition
    [] c = "lastSeen"  -> lastSeenPosition
    [] c = "threat"    -> threatPosition
    [] c = "provider"  -> providerPosition

ZeroMeta ==
  [databaseType |-> 0, databaseColumn |-> 0, databaseDay |-> 0,
   databaseMonth |-> 0, databaseYear |-> 0,
   ipV4DatabaseCount |-> <<0, 0>>, ipV4DatabaseAddr |-> <<0, 0>>,
   ipV6DatabaseCount |-> <<0, 0>>, ipV6DatabaseAddr |-> <<0, 0>>,
   ipV4Indexed |-> FALSE, ipV6Indexed |-> FALSE,
   ipV4IndexBaseAddr |-> <<0, 0>>, ipV6IndexBaseAddr |-> <<0, 0>>,
   ipV4ColumnSize |-> <<0, 0>>, ipV6ColumnSize |-> <<0, 0>>,
   productCode |-> 0, productType |-> 0, fileSize |-> <<0, 0>>]

\* &DB{}: no reader (f = 0 stands for nil), nothing enabled, metaOK false.
ZeroDB ==
  [f |-> 0, meta |-> ZeroMeta,
   positionOffset |-> [c \in Columns |-> <<0, 0>>],
   enabled |-> [c \in Columns |-> FALSE],
   metaOK |-> FALSE]

\* The header fields read from the 64-byte row.
ReadMeta(row) ==
  [databaseType |-> At(row, 0), databaseColumn |-> At(row, 1),
   databaseYear |-> At(row, 2), databaseMonth |-> At(row, 3),
   databaseDay |-> At(row, 4),
   ipV4DatabaseCount |-> readUint32Row(row, <<0, 5>>).val,
   ipV4DatabaseAddr  |-> readUint32Row(row, <<0, 9>>).val,
   ipV6DatabaseCount |-> readUint32Row(row, <<0, 13>>).val,
   ipV6DatabaseAddr  |-> readUint32Row(row, <<0, 17>>).val,
   ipV4IndexBaseAddr |-> readUint32Row(row, <<0, 21>>).val,
   ipV6IndexBaseAddr |-> readUint32Row(row, <<0, 25>>).val,
   productCode |-> At(row, 29), productType |-> At(row, 30),
   fileSize |-> readUint32Row(row, <<0, 31>>).val,
   ipV4Indexed |-> FALSE, ipV6Indexed |-> FALSE,
   ipV4ColumnSize |-> <<0, 0>>, ipV6ColumnSize |-> <<0, 0>>]

\* The structural check made whatever the year.
InvalidBin_AnyYear(m) ==
  m.productCode # 2 \/ (m.databaseType = 80 /\ m.databaseColumn = 75)

\* The structural check: a wrong product code from 2021 on, or "PK".
InvalidBin(m) ==
  (m.productCode # 2 /\ m.databaseYear >= 21)
    \/ (m.databaseType = 80 /\ m.databaseColumn = 75)

\* uint32(databaseColumn << 2) and uint32(16 + ((databaseColumn - 1) << 2)),
\* both computed in uint8.
V4ColumnSize(column) == U32((column * 4) % B8)
V6ColumnSize(column) ==
  U32((16 + ((((column + B8 - 1) % B8) * 4) % B8)) % B8)

\* The handle's metadata after the index flags and the row sizes are set.
DeriveMeta(m) ==
  [m EXCEPT
     !.ipV4Indexed = Cmp(m.ipV4IndexBaseAddr, <<0, 0>>) > 0,
     !.ipV6Indexed = Cmp(m.ipV6DatabaseCount, <<0, 0>>) > 0
                       /\ Cmp(m.ipV6IndexBaseAddr, <<0, 0>>) > 0,
     !.ipV4ColumnSize = V4ColumnSize(m.databaseColumn),
     !.ipV6ColumnSize = V6ColumnSize(m.databaseColumn)]

\* The layout tables hold 12 entries, indexed from 0 by the type byte.
TypeInRange(dbt) == dbt < 12

\* uint32(position - 2) << 2, the subtraction in uint8.
PositionOffset(c, dbt) ==
  IF PositionTable(c)[dbt + 1] # 0
    THEN U32(((PositionTable(c)[dbt + 1] + B8 - 2) % B8) * 4) ELSE <<0, 0>>

\* The handle once the layout is resolved from the type byte; a type byte
\* beyond the tables aborts the call with the reader still open.
openLayout(m) ==
  IF ~TypeInRange(m.databaseType)
    THEN [out |-> "panic", err |-> "index out of range", db |-> ZeroDB,
          closed |-> FALSE]
    ELSE [out |-> "ok", err |-> "nil", closed |-> FALSE,
          db |-> [f |-> 0, meta |-> m,
                  positionOffset |->
                    [c \in Columns |-> PositionOffset(c, m.databaseType)],
                  enabled |->
                    [c \in Columns |-> PositionTable(c)[m.databaseType + 1] # 0],
                  metaOK |-> TRUE]]

\* The structural check on the header fields; fatal closes the reader.
openMeta(m) ==
  IF InvalidBin(m)
    THEN [out |-> "err", err |-> msgInvalidBin, db |-> ZeroDB, closed |-> TRUE]
    ELSE openLayout(DeriveMeta(m))

\* The header row read, or fatal on the read's error.
openRow(r) ==
  IF r.err # "nil"
    THEN [out |-> "err", err |-> r.err, db |-> ZeroDB, closed |-> TRUE]
    ELSE openMeta(ReadMeta(r.row))

\* OpenDBWithReader on the reader rd, whose header read fails when fails is
\* TRUE.  out is "ok" with the handle db (f is filled in by the caller),
\* "err" with the error after fatal has closed the reader, or "panic" when
\* a layout table is indexed out of range.
OpenDBWithReader(rd, fails) == openRow(readRow(rd, <<0, 1>>, 64, fails))

---------------------------------------------------------------------------
(* Queries.  A mode is the set of the bits set in the field mask.          *)

countryShort == 1
countryLong  == 2
region       == 4
city         == 8
isp          == 16
proxyType    == 32
isProxy      == 64
domain       == 128
usageType    == 256
asn          == 512
as           == 1024
lastSeen     == 2048
threat       == 4096
provider     == 8192

all ==
  {countryShort, countryLong, region, city, isp, proxyType, isProxy, domain,
   usageType, asn, as, lastSeen, threat, provider}

StringFields ==
  {"CountryShort", "CountryLong", "Region", "City", "Isp", "ProxyType",
   "Domain", "UsageType", "Asn", "As", "LastSeen", "Threat", "Provider"}

\* loadMessage with the classification left at 0, the zero value of the
\* record's IsProxy field, instead of -1.
loadMessage_ZeroIsProxy(mesg) ==
  [CountryShort |-> mesg, CountryLong |-> mesg, Region |-> mesg, City |-> mesg,
   Isp |-> mesg, ProxyType |-> mesg, Domain |-> mesg, UsageType |-> mesg,
   Asn |-> mesg, As |-> mesg, LastSeen |-> mesg, Threat |-> mesg,
   Provider |-> mesg, IsProxy |-> 0]

\* populate record with message
loadMessage(mesg) ==
  [CountryShort |-> mesg, CountryLong |-> mesg, Region |-> mesg, City |-> mesg,
   Isp |-> mesg, ProxyType |-> mesg, Domain |-> mesg, UsageType |-> mesg,
   Asn |-> mesg, As |-> mesg, LastSeen |-> mesg, Threat |-> mesg,
   Provider |-> mesg, IsProxy |-> -1]

\* The classification as the first release computed it: only "DCH" gives 2.
Classify_OnlyDCH(x) ==
  IF x.CountryShort = strDash \/ x.ProxyType = strDash THEN 0
  ELSE IF x.ProxyType = strDCH THEN 2
  ELSE 1

\* The classification computed from the record once its fields are decoded.
Classify(x) ==
  IF x.CountryShort = strDash \/ x.ProxyType = strDash THEN 0
  ELSE IF x.ProxyType = strDCH \/ x.ProxyType = strSES THEN 2
  ELSE 1

\* The match test without its upper bound.
Matches_NoUpperBound(ipNo, ipFrom, ipTo) == Cmp(ipNo, ipFrom) >= 0

\* The match test with the range open below and closed above.
Matches_ClosedAbove(ipNo, ipFrom, ipTo) ==
  Cmp(ipNo, ipFrom) > 0 /\ Cmp(ipNo, ipTo) <= 0

\* The test that ends the search at a row.
Matches(ipNo, ipFrom, ipTo) == Cmp(ipNo, ipFrom) >= 0 /\ Cmp(ipNo, ipTo) < 0

\* The test that moves high down; otherwise low moves up.
GoesLeft(ipNo, ipFrom) == Cmp(ipNo, ipFrom) < 0

\* The key left as it is, the maximum address included.
SearchKey_Undecremented(ipNo, maxIP) == [ok |-> TRUE, val |-> ipNo]

\* ipNo as compared with the rows: the maximum address is looked up as
\* the address before it.  uint128.Sub aborts on a borrow out of bit 127.
SearchKey(ipNo, maxIP) ==
  IF Cmp(ipNo, maxIP) >= 0
    THEN [ok |-> Cmp(ipNo, ZeroU128) > 0,
          val |-> SubU(ipNo, <<0, 0, 0, 0, 0, 0, 0, 1>>)]
    ELSE [ok |-> TRUE, val |-> ipNo]


\* A bound on the rows one search may probe.
MaxProbes == 40

NoRow == <<B16, B16>>

\* How a search ends.  out: "match" at row mid with the bytes fullRow,
\* "nomatch", "err", "panic" (a slice out of range), "running" (the loop
\* came back to a window low, high it had before, with no read left to
\* fail: it goes round for ever) or "unfinished" (MaxProbes windows were
\* probed and the loop has not ended); k: the reads of the call so far.
SearchEnd(out, err, k, mid, fullRow) ==
  [out |-> out, err |-> err, k |-> k, mid |-> mid, fullRow |-> fullRow]

\* ipFrom or ipTo read from the row at pos, widened to 128 bits.
rowBound(ipType, row, pos) ==
  IF ipType = 4
    THEN [ok  |-> readUint32Row(row, pos).ok,
          val |-> From32(readUint32Row(row, pos).val)]
    ELSE readUint128Row(row, pos)

\* for low <= high { ... }: the rows probed until one matches.  c holds the
\* values the loop does not change, k counts the reads of the call, seen
\* holds the windows <<low, high>> probed so far.
RECURSIVE search(_, _, _, _, _)

\* The key against the row read: a match, or the window narrowed.
compare(c, low, high, k, seen, mid, fullRow, from, to) ==
  IF ~from.ok \/ ~to.ok THEN SearchEnd("panic", "nil", k, NoRow, MakeSlice(<< >>))
  ELSE IF Matches(c.ipNo, from.val, to.val)
    THEN SearchEnd("match", "nil", k, mid, fullRow)
  ELSE IF GoesLeft(c.ipNo, from.val)
    THEN search(c, low, SubU(mid, <<0, 1>>), k, seen \cup {<<low, high>>})
  ELSE search(c, AddU(mid, <<0, 1>>), high, k, seen \cup {<<low, high>>})

probeRow(c, low, high, k, seen, mid, r) ==
  IF r.err # "nil" THEN SearchEnd("err", r.err, k, NoRow, MakeSlice(<< >>))
  ELSE compare(c, low, high, k, seen, mid, r.row,
               rowBound(c.ipType, r.row, <<0, 0>>),
               rowBound(c.ipType, r.row, c.colSize))

\* The row at mid is read with the ipFrom of the row after it.
probe(c, low, high, k, seen, mid) ==
  probeRow(c, low, high, k + 1, seen, mid,
           readRow(c.rd, AddU(c.baseAddr, Mul32(mid, c.colSize)),
                   Val(AddU(c.colSize, c.firstCol)), k + 1 = c.failAt))

search(c, low, high, k, seen) ==
  IF Cmp(low, high) > 0 THEN SearchEnd("nomatch", "nil", k, NoRow, MakeSlice(<< >>))
  ELSE IF <<low, high>> \in seen /\ k >= c.failAt
    THEN SearchEnd("running", "nil", k, NoRow, MakeSlice(<< >>))
  ELSE IF Cardinality(seen) >= MaxProbes
    THEN SearchEnd("unfinished", "nil", k, NoRow, MakeSlice(<< >>))
  ELSE probe(c, low, high, k, seen, Shr1(AddU(low, high)))

\* x.<field>, err = d.readStr(...): the field takes what readStr returns,
\* the empty string beside an error.  st: the record so far, the reads so
\* far, and how the decoding stands ("run", "err" or "panic").
putField(st, field, s) ==
  [x   |-> IF s.out = "panic" THEN st.x ELSE [st.x EXCEPT ![field] = s.val],
   k   |-> st.k + 1,
   out |-> IF s.out = "ok" THEN "run" ELSE s.out,
   err |-> s.err]

readField(c, st, field, ptr) ==
  putField(st, field, readStr(c.rd, ptr, st.k + 1 = c.failAt))

\* The string at the pointer p read from the row.
fieldAt(c, st, field, p) ==
  IF ~p.ok THEN [st EXCEPT !.out = "panic"] ELSE readField(c, st, field, p.val)

\* A field decoded whenever its column is stored, asked for or not.
decodeColumn_Unmasked(c, row, st, want, column, field) ==
  IF st.out # "run" \/ ~c.d.enabled[column] THEN st
  ELSE fieldAt(c, st, field, readUint32Row(row, c.d.positionOffset[column]))

\* A field whose pointer is read from the row at the column's offset.
decodeColumn(c, row, st, want, column, field) ==
  IF st.out # "run" \/ ~want \/ ~c.d.enabled[column] THEN st
  ELSE fieldAt(c, st, field, readUint32Row(row, c.d.positionOffset[column]))

\* The long name decoded whenever the country's position is read.
countryLongAt_WithShort(c, st, countryPos) ==
  IF st.out # "run"
       \/ ~(countryShort \in c.mode \/ countryLong \in c.mode \/ isProxy \in c.mode)
    THEN st
  ELSE readField(c, st, "CountryLong", AddU(countryPos, <<0, 3>>))

\* The long name, 3 bytes after the short code.
countryLongAt(c, st, countryPos) ==
  IF st.out # "run" \/ countryLong \notin c.mode THEN st
  ELSE readField(c, st, "CountryLong", AddU(countryPos, <<0, 3>>))

countryAt(c, st, p) ==
  IF ~p.ok THEN [st EXCEPT !.out = "panic"]
  ELSE countryLongAt(c,
                     IF countryShort \in c.mode \/ isProxy \in c.mode
                       THEN readField(c, st, "CountryShort", p.val) ELSE st,
                     p.val)

\* The country: countryPos is read when a country field or the
\* classification is asked for, and is 0 otherwise.
decodeCountry(c, row, st) ==
  IF st.out # "run" \/ ~c.d.enabled["country"] THEN st
  ELSE countryAt(c, st,
                 IF countryShort \in c.mode \/ countryLong \in c.mode
                      \/ isProxy \in c.mode
                   THEN readUint32Row(row, c.d.positionOffset["country"])
                   ELSE [ok |-> TRUE, val |-> <<0, 0>>])

\* The fields decoded after the country, in the order of the code.
LaterColumns ==
  << [column |-> "region",    flag |-> region,    field |-> "Region"],
     [column |-> "city",      flag |-> city,      field |-> "City"],
     [column |-> "isp",       flag |-> isp,       field |-> "Isp"],
     [column |-> "domain",    flag |-> domain,    field |-> "Domain"],
     [column |-> "usageType", flag |-> usageType, field |-> "UsageType"],
     [column |-> "asn",       flag |-> asn,       field |-> "Asn"],
     [column |-> "as",        flag |-> as,        field |-> "As"],
     [column |-> "lastSeen",  flag |-> lastSeen,  field |-> "LastSeen"],
     [column |-> "threat",    flag |-> threat,    field |-> "Threat"],
     [column |-> "provider",  flag |-> provider,  field |-> "Provider"] >>

RECURSIVE decodeLater(_, _, _, _)
decodeLater(c, row, st, i) ==
  IF i > Len(LaterColumns) THEN st
  ELSE decodeLater(c, row,
                   decodeColumn(c, row, st, LaterColumns[i].flag \in c.mode,
                                LaterColumns[i].column, LaterColumns[i].field),
                   i + 1)

\* The classification is set once every field asked for is decoded.
setIsProxy(st) ==
  IF st.out # "run" THEN st
  ELSE [st EXCEPT !.x.IsProxy = Classify(st.x), !.out = "ok"]

decodeRow(c, row, st) ==
  setIsProxy(
    decodeLater(c, row,
      decodeCountry(c, row,
        decodeColumn(c, row, st, proxyType \in c.mode \/ isProxy \in c.mode,
                     "proxyType", "ProxyType")),
      1))

\* The body of the match: the row data is cut out of fullRow as
\* fullRow[firstCol:(firstCol + rowLen)] with rowLen = colSize - firstCol.
decode(c, fullRow, x, k) ==
  IF ~SliceOK(fullRow, Val(c.firstCol),
              Val(AddU(c.firstCol, SubU(c.colSize, c.firstCol))))
    THEN [x |-> x, k |-> k, out |-> "panic", err |-> "nil"]
    ELSE decodeRow(c,
                   Reslice(fullRow, Val(c.firstCol),
                           Val(AddU(c.firstCol, SubU(c.colSize, c.firstCol)))),
                   [x |-> x, k |-> k, out |-> "run", err |-> "nil"])


\* What a call of query gives back.  out: "ok" (a record, no error), "err"
\* (a record and an error), "panic" (the call aborts), "running" (the
\* search never ends) or "unfinished" (the search has not ended within
\* MaxProbes rows).  reads: the reads of the
\* file the call made; row: the row matched, counted from 0, or NoRow;
\* ipNum: the number checkIP gave the address; key: the number compared
\* with the rows.
Outcome(out, rec, err, reads, row, ipType, ipNum, key) ==
  [out |-> out, rec |-> rec, err |-> err, reads |-> reads, row |-> row,
   ipType |-> ipType, ipNum |-> ipNum, key |-> key]

\* The values the search and the decoding of one call work with.
Context(d, rd, g, mode, failAt, ck) ==
  [d |-> d, rd |-> rd, mode |-> mode, failAt |-> failAt,
   ipType |-> ck.ipType, ipNum |-> ck.ipNum, ipNo |-> ck.ipNum,
   maxIP    |-> IF ck.ipType = 4 THEN maxIPV4Range ELSE g.maxIPV6Range,
   baseAddr |-> IF ck.ipType = 4 THEN d.meta.ipV4DatabaseAddr
                ELSE d.meta.ipV6DatabaseAddr,
   count    |-> IF ck.ipType = 4 THEN d.meta.ipV4DatabaseCount
                ELSE d.meta.ipV6DatabaseCount,
   colSize  |-> IF ck.ipType = 4 THEN d.meta.ipV4ColumnSize
                ELSE d.meta.ipV6ColumnSize,
   firstCol |-> IF ck.ipType = 4 THEN <<0, 4>> ELSE <<0, 16>>]

\* return x, nil or return x, err after the search or the decoding.
queryEnd(c, s, dec) ==
  IF s.out = "nomatch"
    THEN Outcome("ok", loadMessage(msgNotSupported), "nil", s.k, NoRow,
                 c.ipType, c.ipNum, c.ipNo)
  ELSE IF s.out = "match"
    THEN Outcome(dec.out, dec.x, dec.err, dec.k, s.mid, c.ipType, c.ipNum, c.ipNo)
  ELSE Outcome(s.out, loadMessage(msgNotSupported), s.err, s.k, NoRow,
               c.ipType, c.ipNum, c.ipNo)

queryRow(c, s) ==
  queryEnd(c, s,
           IF s.out = "match"
             THEN decode(c, s.fullRow, loadMessage(msgNotSupported), s.k)
             ELSE [x |-> loadMessage(msgNotSupported), k |-> s.k,
                   out |-> s.out, err |-> s.err])

querySearch(c, k, low, high) == queryRow(c, search(c, low, high, k, {}))

\* if ipNo.Cmp(maxIP) >= 0 { ipNo = ipNo.Sub(1) }, then the search.
queryKey(c, k, low, high, key) ==
  IF ~key.ok
    THEN Outcome("panic", loadMessage(msgNotSupported), "nil", k, NoRow,
                 c.ipType, c.ipNum, c.ipNum)
    ELSE querySearch([c EXCEPT !.ipNo = key.val], k, low, high)

\* The window searched: the family's rows 0..count, or the bounds read from
\* the index row r when the family has an index.
queryWindow(c, hasIndex, r) ==
  IF hasIndex /\ r.err # "nil"
    THEN Outcome("err", loadMessage(msgNotSupported), r.err, 1, NoRow,
                 c.ipType, c.ipNum, c.ipNum)
    ELSE queryKey(c, IF hasIndex THEN 1 ELSE 0,
                  IF hasIndex THEN readUint32Row(r.row, <<0, 0>>).val ELSE <<0, 0>>,
                  IF hasIndex THEN readUint32Row(r.row, <<0, 4>>).val ELSE c.count,
                  SearchKey(c.ipNum, c.maxIP))

queryIndex(c, ipIndex) ==
  queryWindow(c, Cmp(ipIndex, <<0, 0>>) > 0,
              IF Cmp(ipIndex, <<0, 0>>) > 0
                THEN readRow(c.rd, ipIndex, 8, 1 = c.failAt)
                ELSE [err |-> "nil", row |-> MakeSlice(<< >>)])

\* query without the test of the IPv6 row count.
queryIP_CountUntested(d, rd, g, mode, failAt, ck) ==
  IF ck.ipType = 0
    THEN Outcome("ok", loadMessage(msgInvalidIP), "nil", 0, NoRow, 0,
                 ZeroU128, ZeroU128)
    ELSE queryIndex(Context(d, rd, g, mode, failAt, ck), ck.ipIndex)

queryIP(d, rd, g, mode, failAt, ck) ==
  IF ck.ipType = 0
    THEN Outcome("ok", loadMessage(msgInvalidIP), "nil", 0, NoRow, 0,
                 ZeroU128, ZeroU128)
  ELSE IF ck.ipType # 4 /\ d.meta.ipV6DatabaseCount = <<0, 0>>
    THEN Outcome("ok", loadMessage(msgIPV6Unsupported), "nil", 0, NoRow,
                 ck.ipType, ck.ipNum, ck.ipNum)
  ELSE queryIndex(Context(d, rd, g, mode, failAt, ck), ck.ipIndex)

\* main query: the handle d, its reader rd (unread when d.f is nil), the
\* range values g, the parsed address ip, the mode, and failAt, the number
\* of the read of this call that the operating system fails (0: none).
query(d, rd, g, ip, mode, failAt) ==
  IF ~d.metaOK
    THEN Outcome("ok", loadMessage(msgMissingFile), "nil", 0, NoRow, 0,
                 ZeroU128, ZeroU128)
    ELSE queryIP(d, rd, g, mode, failAt, checkIP(d, g, ip))

\* Close is used to close file descriptor: d.f.Close().  A nil d.f aborts
\* the call; a reader already closed gives an error.
Close(d, rd) ==
  IF d.f = 0 THEN [out |-> "panic", err |-> "nil pointer dereference"]
  ELSE IF rd.closed THEN [out |-> "err", err |-> "file already closed"]
  ELSE [out |-> "ok", err |-> "nil"]

---------------------------------------------------------------------------
(* The calls.                                                              *)

\* Bounds of the model.
MaxOpens == 2
MaxFail  == 3

\* The addresses queried, as net.ParseIP returns them.
Addrs ==
  { NoIP,
    IPv4(0, 0, 0, 0), IPv4(1, 2, 3, 4), IPv4(9, 255, 255, 255),
    IPv4(10, 0, 0, 0), IPv4(20, 0, 0, 255), IPv4(20, 0, 1, 0),
    IPv4(29, 255, 255, 255), IPv4(30, 0, 0, 0), IPv4(255, 255, 255, 254),
    IPv4(255, 255, 255, 255),
    IPv6(<<0, 0, 0, 0, 0, 0, 0, 0>>),
    IPv6(<<8191, B16 - 1, B16 - 1, B16 - 1, B16 - 1, B16 - 1, B16 - 1, B16 - 1>>),
    IPv6(<<8192, 0, 0, 0, 0, 0, 0, 0>>),
    IPv6(<<8193, 0, 0, 0, 0, 0, B16 - 2561, B16 - 1>>),
    IPv6(<<8194, 2560, 0, 0, 0, 0, 0, 0>>),
    IPv6(<<8194, 51027, 26399, 0, 0, 0, 0, 0>>),
    IPv6(<<12287, B16 - 1, B16 - 1, B16 - 1, B16 - 1, B16 - 1, B16 - 1, B16 - 1>>),
    IPv6(<<12288, 0, 0, 0, 0, 0, 0, 0>>),
    IPv6(<<B16 - 1, B16 - 1, B16 - 1, B16 - 1, B16 - 1, B16 - 1, B16 - 1, B16 - 2>>),
    IPv6(MaxV6) }

NoOutcome ==
  Outcome("none", loadMessage(strEmpty), "nil", 0, NoRow, 0, ZeroU128, ZeroU128)

\* A call's result as the caller sees it.  h: the handle called, or the
\* handle OpenDB returned (0: nil); val: the value returned beside err;
\* wasClosed: the handle's reader was closed when the call was made.
\* again: the call repeats the call made just before it, same accessor,
\* handle and address, whose result was first, with firstFailAt the read
\* that failed in it.
Ret(op, h, out, err, ip, mode, failAt, res, val, wasClosed) ==
  [op |-> op, h |-> h, out |-> out, err |-> err, ip |-> ip, mode |-> mode,
   failAt |-> failAt, res |-> res, val |-> val, wasClosed |-> wasClosed,
   again |-> FALSE, first |-> NoOutcome, firstFailAt |-> 0]

NoRet == Ret("none", 0, "ok", "nil", NoIP, {}, 0, NoOutcome, 0, FALSE)

\* The goroutines that query concurrently, and one that runs no query.
MaxThreads == 2
Threads == 1..MaxThreads
Idle ==
  [pc |-> "idle", h |-> 0, ip |-> NoIP, mode |-> {}, failAt |-> 0,
   ck |-> [ipType |-> 0, ipNum |-> ZeroU128, ipIndex |-> <<0, 0>>],
   res |-> NoOutcome]

\* No OpenDBWithReader is running beside the queries.  at: the range
\* variable being assigned, in the order of the assignments, and one more
\* for the rest of the function; stored: the word of it stored already.
NotOpening == [at |-> 0, stored |-> "none"]

Init ==
  /\ \E id \in FileIds : file = FileOf[id]
  /\ readers = << >>
  /\ handles = <<ZeroDB>>
  /\ ranges = InitialRanges
  /\ ret = NoRet
  /\ calls = [t \in Threads |-> Idle]
  /\ opening = NotOpening

\* The reader behind a handle; a nil d.f is never read.
ReaderOf(d) == IF d.f = 0 THEN [closed |-> TRUE] ELSE readers[d.f]

\* os.Open fails: OpenDB returns nil and the error.
OpenNoFile ==
  /\ ret' = Ret("OpenDB", 0, "err", "no such file or directory", NoIP, {}, 0,
                NoOutcome, 0, FALSE)
  /\ UNCHANGED <<readers, handles, ranges>>

\* OpenDBWithReader, its range variables assigned, came to o on the new
\* reader.
Handed(o, fails) ==
  /\ readers' = Append(readers, [closed |-> o.closed])
  /\ handles' = IF o.out = "ok"
                  THEN Append(handles, [o.db EXCEPT !.f = Len(readers) + 1])
                  ELSE handles
  /\ ret' = Ret("OpenDB", IF o.out = "ok" THEN Len(handles) + 1 ELSE 0,
                o.out, o.err, NoIP, {}, IF fails THEN 1 ELSE 0, NoOutcome, 0,
                FALSE)

\* OpenDBWithReader came to o on the new reader.
Opened(o, fails) ==
  /\ ranges' = OpenedRanges
  /\ Handed(o, fails)

\* OpenDB(dbPath): os.Open, then OpenDBWithReader on the file opened.
\* exists: the path names the file; fails: the header read fails.
CallOpenDB ==
  /\ ret.op = "none"
  /\ Len(readers) < MaxOpens
  /\ \E exists \in BOOLEAN, fails \in BOOLEAN :
       IF ~exists THEN ~fails /\ OpenNoFile
       ELSE Opened(OpenDBWithReader([closed |-> FALSE], fails), fails)
  /\ UNCHANGED <<file, calls, opening>>

Closed(h, c) ==
  /\ readers' = IF c.out = "ok"
                  THEN [readers EXCEPT ![handles[h].f].closed = TRUE]
                  ELSE readers
  /\ ret' = Ret("Close", h, c.out, c.err, NoIP, {}, 0, NoOutcome, 0,
                ReaderOf(handles[h]).closed)

\* d.Close() on handle h.
CallClose(h) ==
  /\ ret.op = "none"
  /\ Closed(h, Close(handles[h], ReaderOf(handles[h])))
  /\ UNCHANGED <<file, handles, ranges, calls, opening>>

\* The handle after query has run on it with the result q: query assigns
\* to no field of d.
queried_ClearedOnError(d, q) ==
  IF q.out = "err" THEN [d EXCEPT !.metaOK = FALSE] ELSE d

\* query keeping the row size of the family it searched in the handle.
queried_KeptRowSize(d, q) ==
  IF q.ipType = 6
    THEN [d EXCEPT !.meta.ipV4ColumnSize = d.meta.ipV6ColumnSize] ELSE d

queried(d, q) == d

\* An accessor on handle h: d.query(ipAddress, mode), then the value picked
\* out of the record ("": the record itself).
Returned(op, h, ip, mode, failAt, field, q) ==
  /\ ret' = [Ret(op, h, q.out, q.err, ip, mode, failAt, q,
                 IF field = "" THEN q.rec ELSE q.rec[field],
                 ReaderOf(handles[h]).closed)
               EXCEPT !.again = ret.op # "none",
                      !.first = IF ret.op # "none" THEN ret.res ELSE NoOutcome,
                      !.firstFailAt = ret.failAt]
  /\ handles' = [handles EXCEPT ![h] = queried(handles[h], q)]

\* The accessor called with one of the addresses addrs.
AccessorOn(addrs, h, op, mode, field) ==
  /\ ret.op = "none"
  /\ \E ip \in addrs, failAt \in 0..MaxFail :
       Returned(op, h, ip, mode, failAt, field,
                query(handles[h], ReaderOf(handles[h]), ranges, ip, mode, failAt))
  /\ UNCHANGED <<file, readers, ranges, calls, opening>>

Accessor(h, op, mode, field) == AccessorOn(Addrs, h, op, mode, field)

GetAll(h)          == Accessor(h, "GetAll", all, "")
GetCountryShort(h) == Accessor(h, "GetCountryShort", {countryShort}, "CountryShort")
GetProxyType(h)    == Accessor(h, "GetProxyType", {proxyType}, "ProxyType")
IsProxy(h)         == Accessor(h, "IsProxy", {isProxy}, "IsProxy")

\* The caller takes the result of a call that returned.  A call that
\* aborted, or a search that does not end, leaves nothing to go on with.
Return ==
  /\ ret.op # "none"
  /\ ret.out \in {"ok", "err"}
  /\ ret' = NoRet
  /\ UNCHANGED <<file, readers, handles, ranges, calls, opening>>

Next ==
  \/ CallOpenDB
  \/ \E h \in 1..Len(handles) : CallClose(h)
  \/ \E h \in 1..Len(handles) : GetAll(h)
  \/ \E h \in 1..Len(handles) : GetCountryShort(h)
  \/ \E h \in 1..Len(handles) : GetProxyType(h)
  \/ \E h \in 1..Len(handles) : IsProxy(h)
  \/ Return

Spec == Init /\ [][Next]_vars

\* The field of the record an accessor returns ("": the record itself).
ValueField(op) ==
  CASE op = "GetAll"          -> ""
    [] op = "GetCountryShort" -> "CountryShort"
    [] op = "GetProxyType"    -> "ProxyType"
    [] op = "IsProxy"         -> "IsProxy"

\* The caller makes the query it has just made on handle h once more,
\* before anything else: the same accessor and address, with no read
\* failing or with the same read failing as the first time.
CallAgain(h) ==
  /\ ret.op \in {"GetAll", "GetCountryShort", "GetProxyType", "IsProxy"}
  /\ ret.h = h
  /\ ret.out \in {"ok", "err"}
  /\ ~ret.again
  /\ \E failAt \in {0, ret.failAt} :
       Returned(ret.op, h, ret.ip, ret.mode, failAt, ValueField(ret.op),
                query(handles[h], ReaderOf(handles[h]), ranges, ret.ip,
                      ret.mode, failAt))
  /\ UNCHANGED <<file, readers, ranges, calls, opening>>

\* The first OpenDB of the program.
OpenFirst == readers = << >> /\ CallOpenDB

\* One database opened, its handle and the handle never opened queried
\* and closed, and queries made twice in a row.
NextAgain ==
  \/ OpenFirst
  \/ \E h \in 1..Len(handles) : CallClose(h)
  \/ \E h \in 1..Len(handles) : GetAll(h)
  \/ \E h \in 1..Len(handles) : GetCountryShort(h)
  \/ \E h \in 1..Len(handles) : GetProxyType(h)
  \/ \E h \in 1..Len(handles) : IsProxy(h)
  \/ Return
  \/ \E h \in 1..Len(handles) : CallAgain(h)

SpecAgain == Init /\ [][NextAgain]_vars

GetCountryLong(h) == Accessor(h, "GetCountryLong", {countryLong}, "CountryLong")
GetRegion(h)      == Accessor(h, "GetRegion", {region}, "Region")

\* One database opened, and its handle queried by the accessors of single
\* fields, by IsProxy and by GetAll.
NextFields ==
  \/ OpenFirst
  \/ \E h \in 1..Len(handles) : GetAll(h)
  \/ \E h \in 1..Len(handles) : GetCountryShort(h)
  \/ \E h \in 1..Len(handles) : GetCountryLong(h)
  \/ \E h \in 1..Len(handles) : GetRegion(h)
  \/ \E h \in 1..Len(handles) : GetProxyType(h)
  \/ \E h \in 1..Len(handles) : IsProxy(h)
  \/ Return

SpecFields == Init /\ [][NextFields]_vars

\* The addresses at the ends of the Teredo range 2001:0000::/32, the
\* address before it and the one after it, and addresses of the other
\* ranges.
TeredoAddrs ==
  { IPv6(<<8193, 0, 0, 0, 0, 0, 0, 0>>),
    IPv6(<<8193, 0, 0, 0, 0, 0, B16 - 2561, B16 - 1>>),
    IPv6(<<8193, 0, 4660, 0, 0, 0, B16 - 5121, B16 - 257>>),
    IPv6(<<8193, 0, B16 - 1, B16 - 1, B16 - 1, B16 - 1, B16 - 1, B16 - 1>>),
    IPv6(<<8193, 1, 0, 0, 0, 0, 0, 0>>),
    IPv6(<<8192, B16 - 1, B16 - 1, B16 - 1, B16 - 1, B16 - 1, B16 - 1, B16 - 1>>),
    IPv6(<<8194, 2560, 0, 0, 0, 0, 0, 0>>),
    IPv4(10, 0, 0, 0) }

GetAllTeredo(h) == AccessorOn(TeredoAddrs, h, "GetAll", all, "")
IsProxyTeredo(h) == AccessorOn(TeredoAddrs, h, "IsProxy", {isProxy}, "IsProxy")

\* One database opened, and its handle queried with these addresses.
NextTeredo ==
  \/ OpenFirst
  \/ \E h \in 1..Len(handles) : GetAllTeredo(h)
  \/ \E h \in 1..Len(handles) : IsProxyTeredo(h)
  \/ Return

SpecTeredo == Init /\ [][NextTeredo]_vars

---------------------------------------------------------------------------
(* Queries run concurrently by several goroutines.  A query reads what it  *)
(* shares with the others at three points: the handle's metaOK when it     *)
(* starts, the range values in checkIP, and the range values, the handle   *)
(* and the file in the search and the decoding.  Between these points the  *)
(* other goroutines run.                                                   *)

\* The addresses, modes and failing reads of the concurrent queries.
ConcAddrs ==
  { IPv4(20, 0, 1, 0), IPv6(<<12288, 0, 0, 0, 0, 0, 0, 0>>),
    IPv6(<<8194, 2560, 0, 0, 0, 0, 0, 0>>) }
ConcModes == {all}
ConcFails == {0, 2}

\* No goroutine is inside a query.
Quiet == \A t \in Threads : calls[t].pc = "idle"

\* query starts: if !d.metaOK { return loadMessage(msgMissingFile), nil }.
BeginOn(addrs, fails, t) ==
  /\ calls[t].pc = "idle"
  /\ ret.op = "none"
  /\ \E h \in 1..Len(handles), ip \in addrs, mode \in ConcModes,
        failAt \in fails :
       calls' = [calls EXCEPT ![t] =
                   [Idle EXCEPT
                      !.h = h, !.ip = ip, !.mode = mode, !.failAt = failAt,
                      !.pc = IF handles[h].metaOK THEN "checkIP" ELSE "done",
                      !.res = IF handles[h].metaOK THEN NoOutcome
                              ELSE Outcome("ok", loadMessage(msgMissingFile),
                                           "nil", 0, NoRow, 0, ZeroU128,
                                           ZeroU128)]]
  /\ UNCHANGED <<file, readers, handles, ranges, ret, opening>>

Begin(t) == BeginOn(ConcAddrs, ConcFails, t)

\* ipType, ipNo, ipIndex := d.checkIP(ipAddress).
Check(t) ==
  /\ calls[t].pc = "checkIP"
  /\ calls' = [calls EXCEPT
                 ![t].pc = "search",
                 ![t].ck = checkIP(handles[calls[t].h], ranges, calls[t].ip)]
  /\ UNCHANGED <<file, readers, handles, ranges, ret, opening>>

\* The rest of query, ended with the result q.
Searched(t, q) ==
  /\ calls' = [calls EXCEPT ![t].pc = "done", ![t].res = q]
  /\ handles' = [handles EXCEPT ![calls[t].h] = queried(handles[calls[t].h], q)]

Search(t) ==
  /\ calls[t].pc = "search"
  /\ Searched(t, queryIP(handles[calls[t].h], ReaderOf(handles[calls[t].h]),
                         ranges, calls[t].mode, calls[t].failAt, calls[t].ck))
  /\ UNCHANGED <<file, readers, ranges, ret, opening>>

\* The goroutine takes the result of a query that returned.
End(t) ==
  /\ calls[t].pc = "done"
  /\ calls[t].res.out \in {"ok", "err"}
  /\ calls' = [calls EXCEPT ![t] = Idle]
  /\ UNCHANGED <<file, readers, handles, ranges, ret, opening>>

\* The first OpenDB, while no query runs.
OpenQuiet == Quiet /\ OpenFirst

NextConc ==
  \/ OpenQuiet
  \/ Return
  \/ \E t \in Threads : Begin(t)
  \/ \E t \in Threads : Check(t)
  \/ \E t \in Threads : Search(t)
  \/ \E t \in Threads : End(t)

SpecConc == Init /\ [][NextConc]_vars


---------------------------------------------------------------------------
(* The range tables as the file's description gives them, against which     *)
(* the results of the calls are stated.  Row i (from 0) of a family spans   *)
(* [IpFrom(t, i), IpTo(t, i)), IpTo being the ipFrom of the row after it;   *)
(* the last row of a table only closes the row before it.                   *)

Queries ==
  {"GetAll", "GetCountryShort", "GetCountryLong", "GetRegion", "GetProxyType",
   "IsProxy"}

FromsOf(t) ==
  IF t = 4 THEN [i \in 1..Len(file.v4from) |-> From32(file.v4from[i])]
  ELSE file.v6from
ColsOf(t) == IF t = 4 THEN file.v4cols ELSE file.v6cols
LastRow(t) == Len(FromsOf(t)) - 2
DataRows(t) == 0..LastRow(t)
IpFrom(t, i) == FromsOf(t)[i + 1]
IpTo(t, i) == FromsOf(t)[i + 2]
MaxOf(t) == IF t = 4 THEN maxIPV4Range ELSE MaxV6
Pred(k) == SubU(k, <<0, 0, 0, 0, 0, 0, 0, 1>>)

\* Row i is the one row of the table whose range holds k.
OnlyRow(t, i, k) ==
  /\ i \in DataRows(t)
  /\ \A j \in DataRows(t) :
       (Cmp(IpFrom(t, j), k) <= 0 /\ Cmp(k, IpTo(t, j)) < 0) <=> j = i

\* The last call was a query that found a row.
RowMatched == ret.op \in Queries /\ ret.res.row # NoRow

\* The last call was a query of a valid address on an open handle of a
\* well-formed file with rows for the address's family, and no read failed.
Answered ==
  /\ ret.op \in Queries
  /\ file.id \in WellFormed
  /\ handles[ret.h].metaOK
  /\ ~ret.wasClosed
  /\ ret.failAt = 0
  /\ ret.res.ipType \in {4, 6}
  /\ Len(FromsOf(ret.res.ipType)) > 0

\* C1, as amended: on a well-formed file (rows sorted ascending, not
\* overlapping), whenever a query finds a row for the number compared with
\* the rows (the number checkIP gives the address, less one when that is
\* the family's maximum address), that row satisfies ipFrom <= key < ipTo
\* and no other row of the table does.
C1_MatchedRowHoldsSearchKey ==
  (RowMatched /\ file.id \in WellFormed)
    => OnlyRow(ret.res.ipType, Val(ret.res.row), ret.res.key)

\* C1's case: the 6to4 address 2002:0a00:: is looked up as 10.0.0.0 and
\* row 1 of the IPv4 table is decoded.
C1_Witness ==
  /\ RowMatched
  /\ file.id = "v4v6"
  /\ ret.ip = IPv6(<<8194, 2560, 0, 0, 0, 0, 0, 0>>)
  /\ ret.res.ipType = 4
  /\ ret.res.row = <<0, 1>>
  /\ ret.out = "ok"

\* C1 as stated: the row found satisfies ipFrom <= k < ipTo for the
\* normalized key k, the number checkIP gives the address, and no other row
\* does.
C1_MatchedRowHoldsNormalizedKey ==
  (RowMatched /\ file.id \in WellFormed)
    => OnlyRow(ret.res.ipType, Val(ret.res.row), ret.res.ipNum)

\* C2: on a well-formed file whose rows cover the family's address space,
\* every valid address of the family finds a row, never the no-match
\* result; the maximum address is compared as maximum - 1 and finds the
\* last row.
C2_CoveringTableAlwaysMatches ==
  Answered =>
    /\ ret.out = "ok"
    /\ ret.res.row # NoRow
    /\ ret.res.ipNum = MaxOf(ret.res.ipType) =>
         /\ ret.res.key = Pred(MaxOf(ret.res.ipType))
         /\ Val(ret.res.row) = LastRow(ret.res.ipType)

\* C2's case: 255.255.255.255 finds the last row, [30.0.0.0, 255.255.255.255).
C2_Witness ==
  /\ Answered
  /\ ret.ip = IPv4(255, 255, 255, 255)
  /\ ret.res.key = From32(<<B16 - 1, B16 - 2>>)
  /\ ret.res.row = <<0, 3>>
  /\ ret.out = "ok"

\* C3, as amended: for every row i of a well-formed table, the address
\* ipFrom[i] finds row i, ipTo[i] - 1 finds row i, and ipTo[i] finds row
\* i + 1, or row i itself when row i is the last row: its ipTo is the
\* family's maximum address, which is compared as maximum - 1.
C3_RowBoundaries ==
  Answered =>
    \A i \in DataRows(ret.res.ipType) :
      /\ ret.res.ipNum = IpFrom(ret.res.ipType, i) => Val(ret.res.row) = i
      /\ ret.res.ipNum = Pred(IpTo(ret.res.ipType, i)) => Val(ret.res.row) = i
      /\ ret.res.ipNum = IpTo(ret.res.ipType, i) =>
           Val(ret.res.row) = IF i = LastRow(ret.res.ipType) THEN i ELSE i + 1

\* C3's case: ffff:...:ffff, the ipTo of the last IPv6 row, finds that row.
C3_Witness ==
  /\ Answered
  /\ ret.ip = IPv6(MaxV6)
  /\ ret.res.ipType = 6
  /\ ret.res.ipNum = IpTo(6, LastRow(6))
  /\ ret.res.row = <<0, 2>>

\* C3 as stated: ipFrom[i] finds row i, ipTo[i] - 1 finds row i, and
\* ipTo[i] finds row i + 1, or nothing when row i is the last row.
C3_LastBoundaryUnmatched ==
  Answered =>
    \A i \in DataRows(ret.res.ipType) :
      /\ ret.res.ipNum = IpFrom(ret.res.ipType, i) => Val(ret.res.row) = i
      /\ ret.res.ipNum = Pred(IpTo(ret.res.ipType, i)) => Val(ret.res.row) = i
      /\ ret.res.ipNum = IpTo(ret.res.ipType, i) =>
           IF i = LastRow(ret.res.ipType) THEN ret.res.row = NoRow
           ELSE Val(ret.res.row) = i + 1


\* The strings the file's description gives row i of a family: the proxy
\* type (the first of two columns) and the short country code (the last
\* column).
RowProxyType(t, i) == Tail(Pool[ColsOf(t)[i + 1][1]])
RowCountryShort(t, i) ==
  SubSeq(Pool[ColsOf(t)[i + 1][Len(ColsOf(t)[i + 1])]], 2,
         1 + Pool[ColsOf(t)[i + 1][Len(ColsOf(t)[i + 1])]][1])

\* The classification the last call returned: IsProxy's value, or the
\* IsProxy field of the record.
Classification == IF ret.op = "IsProxy" THEN ret.val ELSE ret.res.rec.IsProxy

\* IsProxy or GetAll found a row of a well-formed file that stores the
\* proxy type and the country, and decoded it.
Classified ==
  /\ ret.op \in {"IsProxy", "GetAll"}
  /\ ret.out = "ok"
  /\ ret.res.row # NoRow
  /\ file.id \in WellFormed
  /\ Len(ColsOf(ret.res.ipType)[1]) = 2

\* C4: for a matched row, the classification returned by IsProxy and GetAll
\* is 0 if the row's short country code is "-" or its proxy type is "-";
\* otherwise 2 if the proxy type is "DCH" or "SES"; otherwise 1.
C4_ClassificationRule ==
  Classified =>
    Classification =
      IF RowCountryShort(ret.res.ipType, Val(ret.res.row)) = strDash
           \/ RowProxyType(ret.res.ipType, Val(ret.res.row)) = strDash
        THEN 0
      ELSE IF RowProxyType(ret.res.ipType, Val(ret.res.row)) \in {strDCH, strSES}
        THEN 2
      ELSE 1

\* C4's case: IsProxy on a row with country "-" and proxy type "DCH"
\* returns 0.
C4_Witness ==
  /\ Classified
  /\ ret.op = "IsProxy"
  /\ RowCountryShort(ret.res.ipType, Val(ret.res.row)) = strDash
  /\ RowProxyType(ret.res.ipType, Val(ret.res.row)) = strDCH
  /\ ret.val = 0

\* C5: the classification a query returns is one of -1, 0, 1, 2, and it is
\* -1 exactly when no row was decoded to completion (handle not open,
\* invalid address, IPv6 address without IPv6 rows, no match, a failed
\* read); it is 0, 1 or 2 exactly when a row matched and its decoding
\* finished.
C5_ClassificationRange ==
  (ret.op \in Queries /\ ret.out \in {"ok", "err"}) =>
    /\ ret.res.rec.IsProxy \in {-1, 0, 1, 2}
    /\ ret.res.rec.IsProxy = -1 <=> ~(ret.res.row # NoRow /\ ret.out = "ok")
    /\ ret.op = "IsProxy" => ret.val = ret.res.rec.IsProxy

\* C5's case: a row matched, a string read failed, the classification is -1.
C5_Witness ==
  /\ ret.op = "IsProxy"
  /\ ret.out = "err"
  /\ ret.res.row # NoRow
  /\ ret.val = -1

\* C6: if a read fails during a query, the query returns an I/O error and
\* the record returned with it holds no decoded field value, every string
\* field being the NOT SUPPORTED message.
C6_NoPartialRecord ==
  (ret.op \in Queries /\ ret.out = "err") =>
    \A f \in StringFields : ret.res.rec[f] = msgNotSupported

\* C7: a query on a handle that is not open, before a successful open or
\* after Close, returns the record whose every string field is
\* "MISSING FILE" with classification -1 and no error, and reads nothing.
C7_NotOpenGivesMissingFile ==
  (ret.op \in Queries /\ (~handles[ret.h].metaOK \/ ret.wasClosed)) =>
    /\ ret.out = "ok"
    /\ ret.res.rec = loadMessage(msgMissingFile)
    /\ ret.res.reads = 0

\* C8: Close on a handle never opened and a second Close on a closed handle
\* each return an error, neither succeeding nor aborting, and the first
\* Close of an opened handle succeeds.
C8_CloseLifecycle ==
  ret.op = "Close" =>
    ret.out = IF handles[ret.h].f = 0 \/ ret.wasClosed THEN "err" ELSE "ok"

\* C9: an OpenDBWithReader call that does not return a handle has closed
\* the reader it was given; after any sequence of opens, the readers still
\* open are exactly those of the handles returned and not yet closed.
C9_OpenReadersBelongToHandles ==
  /\ (ret.op = "OpenDB" /\ ret.h = 0 /\ ret.err # "no such file or directory")
       => readers[Len(readers)].closed
  /\ \A r \in 1..Len(readers) :
       ~readers[r].closed => \E h \in 1..Len(handles) : handles[h].f = r

\* C10: on a successfully opened file, whatever its contents, a query ends
\* by returning a record or an error; it never aborts with a slice or index
\* out of range.
C10_QueryNeverAborts == ret.op \in Queries => ret.out # "panic"


\* C11: every query on an open handle ends after finitely many row probes,
\* whatever the file holds and whatever the address: the search loop always
\* leaves by a match, an error or low > high.
C11_QueryTerminates == ret.op \in Queries => ret.out # "running"


\* C12: opening a file whose header type byte lies outside the layout
\* tables fails with the format error; the tables are never indexed with
\* such a type.
C12_TypeOutOfRangeFailsExplicitly ==
  (/\ ret.op = "OpenDB"
   /\ ret.err # "no such file or directory"
   /\ ret.failAt = 0
   /\ ~TypeInRange(ByteAt(file, 0)))
    => (ret.out = "err" /\ ret.err = msgInvalidBin)


---------------------------------------------------------------------------
(* Address texts.  net.ParseIP gives the dotted form a.b.c.d the 16 bytes  *)
(* of the IPv4-in-IPv6 prefix followed by a, b, c, d; it reads the form    *)
(* ::ffff:a.b.c.d as an IPv6 address of six 16-bit groups and a dotted     *)
(* tail, and a text that is no address gives nil.                          *)

DottedText(q) == [form |-> "dotted", quad |-> q, groups |-> << >>]
MappedText(q) ==
  [form |-> "groups", quad |-> q, groups |-> <<0, 0, 0, 0, 0, B16 - 1>>]
HexText(h) == [form |-> "groups", quad |-> << >>, groups |-> h]
BadText == [form |-> "bad", quad |-> << >>, groups |-> << >>]

ParseIP(t) ==
  CASE t.form = "dotted" -> <<0, 0, 0, 0, 0, 0, 0, 0, 0, 0, 255, 255>> \o t.quad
    [] t.form = "groups" ->
         Flatten([i \in 1..Len(t.groups) |->
                    <<t.groups[i] \div B8, t.groups[i] % B8>>]) \o t.quad
    [] t.form = "bad" -> NoIP

\* The IPv4 addresses queried, and a.b.c.d as a 32-bit number.
Quads ==
  { <<0, 0, 0, 0>>, <<1, 2, 3, 4>>, <<9, 255, 255, 255>>, <<10, 0, 0, 0>>,
    <<20, 0, 0, 255>>, <<20, 0, 1, 0>>, <<29, 255, 255, 255>>, <<30, 0, 0, 0>>,
    <<255, 255, 255, 254>>, <<255, 255, 255, 255>> }
QuadNum(q) == <<q[1] * B8 + q[2], q[3] * B8 + q[4]>>

\* The index position of a 16-bit prefix p in the index that starts at the
\* 1-based position base: base + 8 * p.
SlotOf(base, p) == AddU(base, U32(8 * p))

\* C15: for every IPv4 address a.b.c.d, the form ::ffff:a.b.c.d parses to
\* the bytes a.b.c.d parses to, and a query of it works with family 4, the
\* number a.b.c.d and the IPv4 index slot of its upper 16 bits, as a query of
\* a.b.c.d does, and so returns the same record.
C15_MappedFormAsDotted ==
  \A q \in Quads :
    (/\ ret.op \in Queries
     /\ handles[ret.h].metaOK
     /\ ret.ip = ParseIP(MappedText(q)))
      => /\ ParseIP(DottedText(q)) = ret.ip
         /\ ret.res.ipType = 4
         /\ ret.res.ipNum = From32(QuadNum(q))
         /\ checkIP(handles[ret.h], ranges, ret.ip).ipIndex =
              IF handles[ret.h].meta.ipV4Indexed
                THEN SlotOf(handles[ret.h].meta.ipV4IndexBaseAddr, QuadNum(q)[1])
                ELSE <<0, 0>>
         /\ ret.res = query(handles[ret.h], ReaderOf(handles[ret.h]), ranges,
                            ParseIP(DottedText(q)), ret.mode, ret.failAt)

\* C15's case: ::ffff:20.0.1.0 queried on the indexed file finds row 2 of
\* the IPv4 table.
C15_Witness ==
  /\ ret.op = "GetAll"
  /\ file.id = "indexed"
  /\ ret.ip = ParseIP(MappedText(<<20, 0, 1, 0>>))
  /\ ret.res.ipType = 4
  /\ ret.res.row = <<0, 2>>
  /\ ret.out = "ok"


\* C16: every IPv6 address in 2002::/16 is given family 4 and the number
\* made of bits 80..111 of the address, its second and third 16-bit
\* groups, so that 2002:c753:671f:: gives 0xc753671f, and it is looked up
\* in the IPv4 table.
C16_SixToFourNormalized ==
  (/\ ret.op \in Queries
   /\ handles[ret.h].metaOK
   /\ ret.ip # NoIP
   /\ ret.ip[1] = 32 /\ ret.ip[2] = 2)
    => /\ ret.res.ipType = 4
       /\ ret.res.ipNum =
            From32(<<ret.ip[3] * B8 + ret.ip[4], ret.ip[5] * B8 + ret.ip[6]>>)
       /\ ret.ip = ParseIP(HexText(<<8194, 51027, 26399, 0, 0, 0, 0, 0>>))
            => ret.res.ipNum = From32(<<51027, 26399>>)
       /\ (Answered /\ ret.res.row # NoRow)
            => OnlyRow(4, Val(ret.res.row), ret.res.key)

\* C16's case: 2002:c753:671f:: finds the row of 199.83.103.31 in the IPv4
\* table of a file that has IPv6 rows too.
C16_Witness ==
  /\ ret.op = "GetAll"
  /\ file.id = "v4v6"
  /\ ret.ip = ParseIP(HexText(<<8194, 51027, 26399, 0, 0, 0, 0, 0>>))
  /\ ret.res.ipNum = From32(<<51027, 26399>>)
  /\ ret.res.row = <<0, 3>>
  /\ ret.out = "ok"


\* The fields a mode asks for, the column each field is stored in, and the
\* string the file's description gives row i for a field.
Wanted(field, mode) ==
  CASE field = "ProxyType"    -> proxyType \in mode \/ isProxy \in mode
    [] field = "CountryShort" -> countryShort \in mode \/ isProxy \in mode
    [] field = "CountryLong"  -> countryLong \in mode
    [] OTHER -> \E i \in 1..Len(LaterColumns) :
                  LaterColumns[i].field = field /\ LaterColumns[i].flag \in mode
ColumnOfField(field) ==
  CASE field = "ProxyType" -> "proxyType"
    [] field \in {"CountryShort", "CountryLong"} -> "country"
    [] OTHER -> LaterColumns[CHOOSE i \in 1..Len(LaterColumns) :
                               LaterColumns[i].field = field].column
InSchema(field, dbt) == PositionTable(ColumnOfField(field))[dbt + 1] # 0
StoredEntry(t, i, field, dbt) ==
  Pool[ColsOf(t)[i + 1][PositionTable(ColumnOfField(field))[dbt + 1] - 1]]
Stored(t, i, field, dbt) ==
  IF field = "CountryLong"
    THEN SubSeq(StoredEntry(t, i, field, dbt), 5,
                4 + StoredEntry(t, i, field, dbt)[4])
    ELSE SubSeq(StoredEntry(t, i, field, dbt), 2,
                1 + StoredEntry(t, i, field, dbt)[1])

\* C17: a query with mode m that matches a row returns no error, and each
\* string field of its record holds the row's string when the field is
\* asked for by m (the short country code and the proxy type also when the
\* classification is asked for) and its column exists in the database
\* type, and "NOT SUPPORTED" otherwise.
C17_OnlyAskedAndStoredFields ==
  (Answered /\ ret.res.row # NoRow) =>
    /\ ret.out = "ok"
    /\ ret.err = "nil"
    /\ \A f \in StringFields :
         ret.res.rec[f] =
           IF Wanted(f, ret.mode)
                /\ InSchema(f, handles[ret.h].meta.databaseType)
             THEN Stored(ret.res.ipType, Val(ret.res.row), f,
                         handles[ret.h].meta.databaseType)
             ELSE msgNotSupported

\* C17's case: GetCountryShort on a PX3 file returns the country code and
\* leaves the proxy type, the region and the city, which the row stores,
\* at "NOT SUPPORTED".
C17_Witness ==
  /\ Answered
  /\ file.id = "px3"
  /\ ret.op = "GetCountryShort"
  /\ ret.res.row = <<0, 1>>
  /\ ret.res.rec.CountryShort = strUS
  /\ ret.res.rec.ProxyType = msgNotSupported
  /\ ret.res.rec.Region = msgNotSupported


\* C18: for every text that is no IPv4 or IPv6 address, a query on an open
\* handle returns the record whose string fields all are
\* "INVALID IP ADDRESS", with classification -1 and no error, and reads
\* nothing from the file.
C18_InvalidAddressRecord ==
  (/\ ret.op \in Queries
   /\ handles[ret.h].metaOK
   /\ ret.ip = ParseIP(BadText))
    => /\ ret.out = "ok"
       /\ ret.err = "nil"
       /\ ret.res.rec = loadMessage(msgInvalidIP)
       /\ ret.res.rec.IsProxy = -1
       /\ ret.res.reads = 0

\* C18's case: IsProxy of a text that is no address, on an open handle of
\* a file that has IPv6 rows, with the first read set to fail, returns -1.
C18_Witness ==
  /\ ret.op = "IsProxy"
  /\ handles[ret.h].metaOK
  /\ ~ret.wasClosed
  /\ file.id = "v4v6"
  /\ ret.ip = ParseIP(BadText)
  /\ ret.failAt = 1
  /\ ret.val = -1
  /\ ret.out = "ok"

\* C19: a query whose address is given family 6, on a database without
\* IPv6 rows, returns the record whose string fields all are
\* "IPV6 ADDRESS MISSING IN IPV4 BIN", with classification -1 and no error,
\* and reads no index and no row; an address given family 4, whatever its
\* form, is never answered with this record.
C19_IPv6WithoutRows ==
  (ret.op \in Queries /\ handles[ret.h].metaOK) =>
    /\ (ret.res.ipType = 6
          /\ handles[ret.h].meta.ipV6DatabaseCount = <<0, 0>>)
         => /\ ret.out = "ok"
            /\ ret.err = "nil"
            /\ ret.res.rec = loadMessage(msgIPV6Unsupported)
            /\ ret.res.reads = 0
    /\ ret.res.ipType = 4 =>
         \A f \in StringFields : ret.res.rec[f] # msgIPV6Unsupported

\* C19's case: 3000:: on an IPv4-only file is answered with the record,
\* the first read being set to fail.
C19_Witness ==
  /\ ret.op = "GetAll"
  /\ file.id = "v4"
  /\ ret.ip = ParseIP(HexText(<<12288, 0, 0, 0, 0, 0, 0, 0>>))
  /\ ret.failAt = 1
  /\ ret.res.ipType = 6
  /\ ret.out = "ok"
  /\ ret.val = loadMessage(msgIPV6Unsupported)

\* C20: opening a file shorter than the 64-byte header fails with the
\* format error, "Incorrect IP2Proxy BIN file format", and leaves no handle
\* and no open reader.
C20_ShortFileIsFormatError ==
  (/\ ret.op = "OpenDB"
   /\ ret.err # "no such file or directory"
   /\ ret.failAt = 0
   /\ file.size < 64)
    => /\ ret.out = "err"
       /\ ret.err = msgInvalidBin
       /\ ret.h = 0
       /\ readers[Len(readers)].closed

---------------------------------------------------------------------------
(* Opening files of every header.  The files differ in the header bytes    *)
(* OpenDBWithReader looks at: the database type, the column count, the     *)
(* year and the product code.                                              *)

\* strconv.Itoa of a number that is not negative: its decimal digits.
RECURSIVE Itoa(_)
Itoa(n) == IF n < 10 THEN <<48 + n>> ELSE Itoa(n \div 10) \o <<48 + (n % 10)>>

\* The rows of a database with cols columns beside ipFrom: those of Rows4
\* (the country alone when cols = 1), the further columns pointing at the
\* pool entry "CA".
RowsOfWidth(cols) ==
  [i \in 1..Len(Rows4) |->
     [from |-> Rows4[i].from,
      cols |-> IF cols = 1 THEN <<Rows4[i].cols[2]>>
               ELSE Rows4[i].cols \o [k \in 1..(cols - 2) |-> 9]]]

\* A database of type t that declares column columns, compiled in the year
\* 2000 + year with the product code pcode.
HeaderFile(t, column, year, pcode, rows) ==
  Build([PX2 EXCEPT !.id = "header", !.dbtype = t, !.column = column,
                    !.year = year, !.pcode = pcode, !.v4 = rows])

HeaderYears == {20, 21}
HeaderCodes == {1, 2}
WideColumns == {63, 64, 65, 255}

\* PX1 to PX12 with the columns of their type; a file that starts with
\* "PK"; PX2 files that declare many columns.
HeaderFiles ==
  {HeaderFile(t, t + 1, y, p, RowsOfWidth(t)) :
     t \in 1..12, y \in HeaderYears, p \in HeaderCodes}
    \cup {HeaderFile(80, 75, y, p, Rows4) : y \in HeaderYears, p \in HeaderCodes}
    \cup {HeaderFile(2, c, 21, 2, Rows4) : c \in WideColumns}

InitHeaders ==
  /\ file \in HeaderFiles
  /\ readers = << >>
  /\ handles = <<ZeroDB>>
  /\ ranges = InitialRanges
  /\ ret = NoRet
  /\ calls = [t \in Threads |-> Idle]
  /\ opening = NotOpening

\* d.PackageVersion() on handle h.
PackageVersion(h) ==
  /\ ret.op = "none"
  /\ ret' = Ret("PackageVersion", h, "ok", "nil", NoIP, {}, 0, NoOutcome,
                Itoa(handles[h].meta.databaseType), ReaderOf(handles[h]).closed)
  /\ UNCHANGED <<file, readers, handles, ranges, calls, opening>>

NextOpen ==
  \/ CallOpenDB
  \/ \E h \in 1..Len(handles) : CallClose(h)
  \/ \E h \in 1..Len(handles) : PackageVersion(h)
  \/ Return

SpecOpen == InitHeaders /\ [][NextOpen]_vars

\* The header bytes of the file.
HeaderType   == ByteAt(file, 0)
HeaderColumn == ByteAt(file, 1)
HeaderYear   == ByteAt(file, 2)
HeaderCode   == ByteAt(file, 29)

\* The last call was an OpenDB that read the 64 bytes of the header.
HeaderRead ==
  /\ ret.op = "OpenDB"
  /\ ret.err # "no such file or directory"
  /\ ret.failAt = 0
  /\ file.size >= 64

\* C21: when the header is read, OpenDBWithReader fails with the error
\* "Incorrect IP2Proxy BIN file format" if and only if the product code is
\* not 2 and the year is 21 or more, or the type byte is 80 and the column
\* byte 75; a header of a year before 21 with a database type of the
\* layout tables is accepted, whatever its product code.
C21_StructuralCheck ==
  HeaderRead =>
    /\ (ret.out = "err" /\ ret.err = msgInvalidBin)
         <=> \/ (HeaderCode # 2 /\ HeaderYear >= 21)
             \/ (HeaderType = 80 /\ HeaderColumn = 75)
    /\ (ret.out = "err" /\ ret.err = msgInvalidBin)
         => (ret.h = 0 /\ readers[Len(readers)].closed)
    /\ (HeaderYear < 21 /\ HeaderType < 12)
         => (ret.out = "ok" /\ ret.h > 1 /\ handles[ret.h].metaOK)

\* C21's case: a PX3 file of the year 20 with the product code 1 is opened.
C21_Witness ==
  /\ HeaderRead
  /\ HeaderType = 3
  /\ HeaderYear = 20
  /\ HeaderCode = 1
  /\ ret.out = "ok"
  /\ handles[ret.h].metaOK


\* The number a text of decimal digits stands for, -1 for any other text.
RECURSIVE DigitsValue(_)
DigitsValue(s) ==
  IF s = << >> \/ s[Len(s)] \notin 48..57 THEN -1
  ELSE IF Len(s) = 1 THEN s[1] - 48
  ELSE IF s[1] = 48 \/ DigitsValue(SubSeq(s, 1, Len(s) - 1)) < 0 THEN -1
  ELSE 10 * DigitsValue(SubSeq(s, 1, Len(s) - 1)) + (s[Len(s)] - 48)

\* The file is a database of one of the types PX1 to PX12 with the columns
\* of its type, which passes the structural check.
ValidOfType ==
  /\ HeaderType \in 1..12
  /\ HeaderColumn = HeaderType + 1
  /\ ~(HeaderCode # 2 /\ HeaderYear >= 21)

\* C22: for every database type 1 to 12, OpenDB on a valid file of that
\* type returns a handle, and PackageVersion on that handle returns the
\* type as a decimal text.
C22_EveryTypeOpens ==
  /\ (HeaderRead /\ ValidOfType) => (ret.out = "ok" /\ ret.h > 1)
  /\ (ret.op = "PackageVersion" /\ handles[ret.h].metaOK /\ ValidOfType)
       => DigitsValue(ret.val) = HeaderType


\* C25: for every column count c of 1 to 255 declared in the header, the
\* handle's IPv4 row size is 4 * c and its IPv6 row size 16 + 4 * (c - 1),
\* both as 32-bit values that do not wrap around at 8 bits.
C25_RowSizesUnwrapped ==
  \A h \in 2..Len(handles) :
    HeaderColumn \in 1..255 =>
      /\ handles[h].meta.ipV4ColumnSize = U32(4 * HeaderColumn)
      /\ handles[h].meta.ipV6ColumnSize = U32(16 + 4 * (HeaderColumn - 1))


\* The handle d with its index tables left unused: the search then takes
\* the whole table of the family, rows 0 to the row count.
Unindexed(d) ==
  [d EXCEPT !.meta.ipV4Indexed = FALSE, !.meta.ipV6Indexed = FALSE]

\* C23: on a well-formed database whose index slot of each 16-bit prefix
\* holds the bounds of the rows that meet the prefix, every address finds
\* by the index the row, and gets the record, that the binary search over
\* the whole table gives it; the slot is read at the index base plus 8
\* times the upper 16 bits of the number checkIP gives the address, in the
\* IPv4 index when that number is of family 4.
C23_IndexedSearchAsFullSearch ==
  (Answered /\ file.id = "indexed") =>
    /\ handles[ret.h].meta.ipV4Indexed
    /\ handles[ret.h].meta.ipV6Indexed
    /\ checkIP(handles[ret.h], ranges, ret.ip).ipIndex =
         IF ret.res.ipType = 4
           THEN SlotOf(handles[ret.h].meta.ipV4IndexBaseAddr, ret.res.ipNum[7])
           ELSE SlotOf(handles[ret.h].meta.ipV6IndexBaseAddr, ret.res.ipNum[1])
    /\ ret.res.row =
         query(Unindexed(handles[ret.h]), ReaderOf(handles[ret.h]), ranges,
               ret.ip, ret.mode, 0).row
    /\ ret.res.rec =
         query(Unindexed(handles[ret.h]), ReaderOf(handles[ret.h]), ranges,
               ret.ip, ret.mode, 0).rec
    /\ ret.res.row # NoRow

\* C23's case: the 6to4 address 2002:0a00:: finds row 1 of the IPv4 table
\* through the IPv4 index, whose slot is the first read of the call.
C23_Witness ==
  /\ Answered
  /\ file.id = "indexed"
  /\ ret.op = "GetAll"
  /\ ret.ip = ParseIP(HexText(<<8194, 2560, 0, 0, 0, 0, 0, 0>>))
  /\ ret.res.ipType = 4
  /\ ret.res.row = <<0, 1>>
  /\ ret.res.reads >= 2
  /\ ret.res.rec.CountryShort = strUS


\* The string at the 0-based file offset p: the length byte there and the
\* bytes that follow it.
FileString(p) == [i \in 1..ByteAt(file, p) |-> ByteAt(file, p + i)]

\* The 32-bit number stored at the 0-based file offset off.
FileUint32(off) ==
  LE32(ByteAt(file, off), ByteAt(file, off + 1), ByteAt(file, off + 2),
       ByteAt(file, off + 3))

\* GetProxyType found a row in the IPv4 table of a PX2 file whose rows are
\* sorted, no read failing.
ProxyTypeAsked ==
  /\ ret.op = "GetProxyType"
  /\ file.id \in {"v4", "v4v6", "indexed", "len255"}
  /\ handles[ret.h].metaOK
  /\ ~ret.wasClosed
  /\ ret.failAt = 0
  /\ ret.res.ipType = 4
  /\ ret.res.row # NoRow

\* C24: a string field is decoded as exactly the L bytes that follow its
\* length byte, for every L of 0 to 255 and also when fewer than 256 bytes
\* lie between the length byte and the end of the file.
C24_StringOfEveryLength ==
  ProxyTypeAsked =>
    /\ ret.out = "ok"
    /\ ret.val = FileString(Val(FileUint32(64 + 12 * Val(ret.res.row) + 4)))


\* A query that asks for the short country code, the long country name or
\* the classification found a row of a file that stores the country.
CountryAsked ==
  /\ Answered
  /\ ret.res.row # NoRow
  /\ handles[ret.h].enabled["country"]
  /\ (countryShort \in ret.mode \/ countryLong \in ret.mode
        \/ isProxy \in ret.mode)

\* C26, as amended: when a query asks for the short country code, the long
\* country name or the classification and the country column exists, the
\* record holds the row's short code if the short code or the
\* classification is asked for, and the row's long name if the long name
\* is asked for; the one not asked for stays "NOT SUPPORTED".
C26_CountryFieldsByMask ==
  CountryAsked =>
    /\ ret.out = "ok"
    /\ ret.res.rec.CountryShort =
         IF countryShort \in ret.mode \/ isProxy \in ret.mode
           THEN Stored(ret.res.ipType, Val(ret.res.row), "CountryShort",
                       handles[ret.h].meta.databaseType)
           ELSE msgNotSupported
    /\ ret.res.rec.CountryLong =
         IF countryLong \in ret.mode
           THEN Stored(ret.res.ipType, Val(ret.res.row), "CountryLong",
                       handles[ret.h].meta.databaseType)
           ELSE msgNotSupported

\* C26's case: GetCountryLong returns "USA" from a record whose short
\* country code is left at "NOT SUPPORTED".
C26_Witness ==
  /\ CountryAsked
  /\ ret.op = "GetCountryLong"
  /\ ret.val = <<85, 83, 65>>
  /\ ret.res.rec.CountryLong = <<85, 83, 65>>
  /\ ret.res.rec.CountryShort = msgNotSupported

\* C26 as stated: when a query asks for the short country code, the long
\* country name or the classification and the country column exists, the
\* record holds both the row's short code and the row's long name.
C26_CountryPairDecodedTogether ==
  CountryAsked =>
    /\ ret.res.rec.CountryShort =
         Stored(ret.res.ipType, Val(ret.res.row), "CountryShort",
                handles[ret.h].meta.databaseType)
    /\ ret.res.rec.CountryLong =
         Stored(ret.res.ipType, Val(ret.res.row), "CountryLong",
                handles[ret.h].meta.databaseType)


\* What the file holds for the last query, which found row number Found of
\* the family Family: the 1-based address of the family's table and of its
\* index in the header, the row size, the width of ipFrom, and ipFrom as
\* stored at a 0-based offset.
Family == ret.res.ipType
Found == Val(ret.res.row)
TableAddr == Val(FileUint32(IF Family = 4 THEN 9 ELSE 17))
IndexAddr == Val(FileUint32(IF Family = 4 THEN 21 ELSE 25))
RowSize == IF Family = 4 THEN 4 * HeaderColumn ELSE 16 + 4 * (HeaderColumn - 1)
FromWidth == IF Family = 4 THEN 4 ELSE 16
FileBound(off) ==
  IF Family = 4 THEN From32(FileUint32(off))
  ELSE FromBytes([k \in 1..16 |-> ByteAt(file, off + k - 1)])
KeyPrefix == IF Family = 4 THEN ret.res.ipNum[7] ELSE ret.res.ipNum[1]

\* The bytes of row Found are those at the 0-based offset start: the key
\* lies between the ipFrom stored there and the ipFrom stored one row on.
RowReadAt(start) ==
  /\ Cmp(FileBound(start + RowSize * Found), ret.res.key) <= 0
  /\ Cmp(ret.res.key, FileBound(start + RowSize * (Found + 1))) < 0

\* The index slot of the key's prefix is the 8 bytes at the 0-based offset
\* start + 8 * prefix: the row found lies within the bounds stored there.
SlotReadAt(start) ==
  /\ Val(FileUint32(start + 8 * KeyPrefix)) <= Found
  /\ Found <= Val(FileUint32(start + 8 * KeyPrefix + 4))

\* The pointer to the proxy type stored in row Found read at table.
ProxyTypePointerAt(table) ==
  Val(FileUint32(table + RowSize * Found + FromWidth))

\* A query that decodes the proxy type found a row.
ProxyTypeDecoded ==
  /\ Answered
  /\ ret.res.row # NoRow
  /\ handles[ret.h].enabled["proxyType"]
  /\ Wanted("ProxyType", ret.mode)

\* C27, as amended: the table and index addresses of the header are
\* 1-based, the bytes read for such a position p starting at the 0-based
\* file offset p - 1, for the rows and for the index slots; a string
\* pointer stored in a row is the 0-based offset of the string's length
\* byte, the bytes read for the pointer p starting at the offset p.
C27_PositionsOneBasedPointersZeroBased ==
  ProxyTypeDecoded =>
    /\ RowReadAt(TableAddr - 1)
    /\ file.id = "indexed" => SlotReadAt(IndexAddr - 1)
    /\ ret.out = "ok"
    /\ ret.res.rec.ProxyType = FileString(ProxyTypePointerAt(TableAddr - 1))

\* C27's case: 3000:: finds row 2 of the IPv6 table through the index and
\* its proxy type "VPN" is decoded.
C27_Witness ==
  /\ ProxyTypeDecoded
  /\ file.id = "indexed"
  /\ ret.ip = ParseIP(HexText(<<12288, 0, 0, 0, 0, 0, 0, 0>>))
  /\ Family = 6
  /\ ret.res.row = <<0, 2>>
  /\ ret.res.rec.ProxyType = strVPN

\* C27 as stated: every position is 1-based, the string pointers stored in
\* the rows too: the bytes read for a pointer p start at the offset p - 1.
C27_EveryPositionOneBased ==
  ProxyTypeDecoded =>
    /\ RowReadAt(TableAddr - 1)
    /\ file.id = "indexed" => SlotReadAt(IndexAddr - 1)
    /\ ret.out = "ok"
    /\ ret.res.rec.ProxyType =
         FileString(ProxyTypePointerAt(TableAddr - 1) - 1)


\* C28: for every mode that asks for the short country code, the long
\* country name or the proxy type, the classification in the record the
\* query produces is the one GetAll's record has for the same address: it
\* depends on the row found, not on the mode.
C28_ClassificationIndependentOfMask ==
  (/\ Answered
   /\ ret.res.row # NoRow
   /\ (countryShort \in ret.mode \/ countryLong \in ret.mode
         \/ proxyType \in ret.mode))
    => ret.res.rec.IsProxy =
         query(handles[ret.h], ReaderOf(handles[ret.h]), ranges, ret.ip, all,
               0).rec.IsProxy


\* The ranges that checkIP tests a 128-bit number against, in its order.
InV4Mapped(n) == InRange(n, fromV4Mapped, toV4Mapped)
In6To4(n)     == InRange(n, ranges.from6To4, ranges.to6To4)
InTeredo(n)   == InRange(n, ranges.fromTeredo, ranges.toTeredo)

\* The address of the last query as a 128-bit number.
RawNumber == FromBytes(reverseBytes(ret.ip))

\* C29: every IPv6 address in 2001:0000::/32 is given family 4 and the
\* complement of its lower 32 bits as its number; the Teredo range is
\* tested after the v4-mapped and the 6to4 ranges, and as no address lies
\* in two of the three ranges the order of the tests does not change the
\* result.
C29_TeredoNormalized ==
  (ret.op \in Queries /\ handles[ret.h].metaOK /\ ret.ip # NoIP) =>
    /\ (ret.ip[1] = 32 /\ ret.ip[2] = 1 /\ ret.ip[3] = 0 /\ ret.ip[4] = 0)
         => /\ InTeredo(RawNumber)
            /\ ret.res.ipType = 4
            /\ ret.res.ipNum =
                 From32(<<B16 - 1 - (ret.ip[13] * B8 + ret.ip[14]),
                          B16 - 1 - (ret.ip[15] * B8 + ret.ip[16])>>)
    /\ InTeredo(RawNumber)
         => (ret.ip[1] = 32 /\ ret.ip[2] = 1 /\ ret.ip[3] = 0 /\ ret.ip[4] = 0)
    /\ Cmp(toV4Mapped, ranges.fromTeredo) < 0
    /\ Cmp(ranges.toTeredo, ranges.from6To4) < 0
    /\ ~(InV4Mapped(RawNumber) /\ In6To4(RawNumber))
    /\ ~(InV4Mapped(RawNumber) /\ InTeredo(RawNumber))
    /\ ~(In6To4(RawNumber) /\ InTeredo(RawNumber))
    /\ (To4(ret.ip) = << >> /\ ret.res.ipType = 6)
         => ~(InV4Mapped(RawNumber) \/ In6To4(RawNumber) \/ InTeredo(RawNumber))

\* C29's case: 2001:0:0:0:0:0:f5ff:ffff is looked up as 10.0.0.0 and finds
\* row 1 of the IPv4 table of a file that has IPv6 rows too.
C29_Witness ==
  /\ ret.op = "GetAll"
  /\ file.id = "v4v6"
  /\ ret.ip = ParseIP(HexText(<<8193, 0, 0, 0, 0, 0, B16 - 2561, B16 - 1>>))
  /\ ret.res.ipType = 4
  /\ ret.res.ipNum = From32(<<2560, 0>>)
  /\ ret.res.row = <<0, 1>>
  /\ ret.out = "ok"

---------------------------------------------------------------------------
(* OpenDBWithReader run by one goroutine while another queries.  The open  *)
(* assigns the five package-level range variables, one after the other,    *)
(* before it touches the reader; a uint128 is two 64-bit words, Hi and Lo, *)
(* and nothing orders the two stores of an assignment or keeps a query     *)
(* from reading between them.                                              *)

\* The range variables in the order OpenDBWithReader assigns them.
RangeNames == <<"maxIPV6Range", "from6To4", "to6To4", "fromTeredo", "toTeredo">>

Words == {"Hi", "Lo"}

\* n with its word w taken from v: Hi is the limbs 1 to 4, Lo the limbs 5
\* to 8.
WithWord(n, w, v) ==
  [i \in 1..8 |-> IF (i <= 4) <=> (w = "Hi") THEN v[i] ELSE n[i]]

\* The variable cleared before the word is stored.
rangeStore_ClearedFirst(g, name, w) ==
  [g EXCEPT ![name] = WithWord(ZeroU128, w, OpenedRanges[name])]

\* The store of the word w of the value OpenDBWithReader assigns to the
\* range variable name.
rangeStore(g, name, w) ==
  [g EXCEPT ![name] = WithWord(g[name], w, OpenedRanges[name])]

\* OpenDBWithReader is entered: var db = &DB{}.
OpenStart ==
  /\ opening.at = 0
  /\ ret.op = "none"
  /\ Len(readers) < MaxOpens
  /\ opening' = [at |-> 1, stored |-> "none"]
  /\ UNCHANGED <<file, readers, handles, ranges, ret, calls>>

\* One word of the assignment the open has come to is stored.
OpenStore(w) ==
  /\ opening.at \in 1..Len(RangeNames)
  /\ opening.stored # w
  /\ ranges' = rangeStore(ranges, RangeNames[opening.at], w)
  /\ opening' = IF opening.stored = "none"
                  THEN [opening EXCEPT !.stored = w]
                  ELSE [at |-> opening.at + 1, stored |-> "none"]
  /\ UNCHANGED <<file, readers, handles, ret, calls>>

\* db.f = reader and the rest of OpenDBWithReader: the header is read and
\* the handle returned.  fails: the header read fails.
OpenRest ==
  /\ opening.at = Len(RangeNames) + 1
  /\ \E fails \in BOOLEAN :
       Handed(OpenDBWithReader([closed |-> FALSE], fails), fails)
  /\ opening' = NotOpening
  /\ UNCHANGED <<file, ranges, calls>>

\* The goroutine that queries beside the open, and what it asks: an
\* address of each range the variables bound, the highest IPv6 address,
\* an IPv6 address of no range and an IPv4 address.
Racers == {1}
RaceAddrs ==
  { IPv6(<<8194, 2560, 0, 0, 0, 0, 0, 0>>),
    IPv6(<<8193, 0, 0, 0, 0, 0, 62975, 65535>>),
    IPv6(<<65535, 65535, 65535, 65535, 65535, 65535, 65535, 65535>>),
    IPv6(<<12288, 0, 0, 0, 0, 0, 0, 0>>),
    IPv4(20, 0, 1, 0) }
RaceFails == {0}

BeginRace(t) == BeginOn(RaceAddrs, RaceFails, t)

NextRace ==
  \/ OpenStart
  \/ \E w \in Words : OpenStore(w)
  \/ OpenRest
  \/ Return
  \/ \E t \in Racers : BeginRace(t)
  \/ \E t \in Racers : Check(t)
  \/ \E t \in Racers : Search(t)
  \/ \E t \in Racers : End(t)

SpecRace == Init /\ [][NextRace]_vars

\* An open has come to the second word of an assignment.
MidStore == opening.at \in 1..Len(RangeNames) /\ opening.stored # "none"

\* C30: the range variables are zero until the first OpenDBWithReader
\* starts, every OpenDBWithReader stores the same five values, and a query
\* on an opened handle running beside an open finds in checkIP and in its
\* maximum-address test what it finds when the variables hold these
\* values: the open changes nothing in its result.
C30_OpenBesideQueries ==
  /\ (readers = << >> /\ opening.at = 0) => ranges = InitialRanges
  /\ opening.at = Len(RangeNames) + 1 => ranges = OpenedRanges
  /\ readers # << >> => ranges = OpenedRanges
  /\ \A t \in Racers :
       /\ calls[t].pc = "search" =>
            /\ handles[calls[t].h].metaOK
            /\ calls[t].ck =
                 checkIP(handles[calls[t].h], OpenedRanges, calls[t].ip)
       /\ calls[t].pc = "done" =>
            calls[t].res =
              query(handles[calls[t].h], ReaderOf(handles[calls[t].h]),
                    OpenedRanges, calls[t].ip, calls[t].mode, calls[t].failAt)

\* C30's case: a second open is between the two stores of to6To4 while a
\* query on the handle of the first open has passed checkIP with a 6to4
\* address, which it made an IPv4 address.
C30_Witness ==
  /\ MidStore
  /\ RangeNames[opening.at] = "to6To4"
  /\ Len(readers) >= 1
  /\ \E t \in Racers :
       /\ calls[t].pc = "search"
       /\ calls[t].h > 1
       /\ calls[t].ip = IPv6(<<8194, 2560, 0, 0, 0, 0, 0, 0>>)
       /\ calls[t].ck.ipType = 4

===========================================================================
